---- MODULE Spec2Model ----
(***************************************************************************)
(* Batch deployment orchestrator of backend/main.py: the session store,    *)
(* the submission handler, the parallel executor, the per-artifact         *)
(* workflow and the tenant client's configuration update loop.             *)
(*                                                                         *)
(* The runtime is a single asyncio event loop: the code between two        *)
(* awaits runs atomically.  Every action below is one such segment: it     *)
(* resumes a coroutine at the await it is suspended on, with the outcome   *)
(* of the awaited remote call as its input, and runs it up to the next     *)
(* await (or to its end).                                                  *)
(***************************************************************************)
EXTENDS Integers, Sequences, FiniteSets, TLC

VARIABLES
    session,              \* heap of BatchDeploymentResponse objects, in creation order
    deployment_sessions,  \* the module-level dict: deployment id -> index into session
    exec,                 \* one execute_batch_deployment task per submission
    wf,                   \* wf[r][i]: the deploy_single_artifact task of executor r, index i
    bu,                   \* a stand-alone call of batch_update_iflow_config
    tc,                   \* a stand-alone SAPDynamicClient, its clock and its callers
    reply,                \* the HTTP response of the latest request handled
    configurations        \* the configurations directory: folder -> rows of its CSV file

vars == <<session, deployment_sessions, exec, wf, bu, tc, reply, configurations>>

-----------------------------------------------------------------------------
(* Bounds *)

MaxBatches == 2      \* submissions per behaviour
MaxArtifacts == 2    \* artifacts submitted per behaviour, over all batches
MaxRows == 3         \* rows handed to a stand-alone batch_update_iflow_config
MaxPolled == 1       \* artifacts submitted per behaviour when the store is polled
MaxTime == 90        \* seconds the clock of the stand-alone client runs for
MaxSaved == 1        \* folders save_iflow_configurations creates per behaviour

-----------------------------------------------------------------------------
(* Inputs *)

None == "None"

\* Artifacts of one package, the first with saved configuration rows
Artifact(n) ==
    [iflowId |-> "f" \o ToString(n), iflowName |-> "Flow" \o ToString(n),
     version |-> "1.0.0", packageId |-> "p1", packageName |-> "Pkg1"]

\* request.deployment_id: absent, or a caller-supplied string
RequestIds == {None, "d1"}

\* request.target_environment: the default, and a name with no folder on disk
Environments == {"CCCI_PROD", "DEV"}

ParamKeys == {"k1", "k2"}

ConfigRow(f, v, k) ==
    [iFlow_ID |-> f, iFlow_Version |-> v, Parameter_Key |-> k,
     Parameter_Value |-> "v", Parameter_Type |-> "xsd:string"]

\* configurations/<folder>/iflow_configuration.csv on disk; a folder without
\* a file is not in the domain.
ConfigFiles ==
    [PRD     |-> << ConfigRow("f1", "1.0.0", "k1"), ConfigRow("f1", "0.9.0", "k9"),
                    ConfigRow("f1", "1.0.0", "k2") >>,
     SANDBOX |-> << ConfigRow("f2", "1.0.0", "k1") >>]

\* The package as the source tenant describes it
PackageData(package_id) == [Id |-> package_id, Name |-> "Pkg1"]

\* HTTP statuses the deploy trigger answers with
DeployStatusCodes == {200, 201, 202, 500}

\* response.text of a deploy trigger the workflow sees refused
DeployRefusedText == "Internal Server Error"

\* Statuses and bodies the deploy trigger answers a stand-alone client with
HttpStatusCodes == DeployStatusCodes \cup {404}

ResponseTexts == {"", DeployRefusedText}

\* HTTP statuses the token endpoint answers with
TokenStatusCodes == {200, 401, 503}

\* expires_in of the token endpoint's answers, in seconds
ExpiresIn == {0, 30, 90, 300}

\* Seconds between two readings of datetime.now()
ClockStep == 30

\* Path parameters of GET /api/sap/deploy/status/{deployment_id}
PolledIds == {"d1", "deploy_0", "unknown-id"}

-----------------------------------------------------------------------------
(* Data model *)

\* DeploymentProgress with the package name taken from the package id
DeploymentProgress_pkgname(artifact) ==
    [iflowId |-> artifact.iflowId,
     iflowName |-> artifact.iflowName,
     version |-> artifact.version,
     packageId |-> artifact.packageId,
     packageName |-> artifact.packageId,
     uploadStatus |-> "pending",
     uploadProgress |-> 0,
     configureStatus |-> "pending",
     configureProgress |-> 0,
     deployStatus |-> "pending",
     deployProgress |-> 0,
     overallStatus |-> "pending",
     message |-> "Ready for deployment",
     errorMessage |-> None,
     startTime |-> None,
     endTime |-> None]

\* DeploymentProgress(...) as constructed by the submission handler
DeploymentProgress(artifact) ==
    [iflowId |-> artifact.iflowId,
     iflowName |-> artifact.iflowName,
     version |-> artifact.version,
     packageId |-> artifact.packageId,
     packageName |-> artifact.packageName,
     uploadStatus |-> "pending",
     uploadProgress |-> 0,
     configureStatus |-> "pending",
     configureProgress |-> 0,
     deployStatus |-> "pending",
     deployProgress |-> 0,
     overallStatus |-> "pending",
     message |-> "Ready for deployment",
     errorMessage |-> None,
     startTime |-> None,
     endTime |-> None]

\* The local state of one deploy_single_artifact task before it first runs
NewWorkflow ==
    [pc |-> "start", calls |-> <<>>, parameters |-> <<>>, idx |-> 0,
     failures |-> <<>>, raised |-> None,
     package_exists |-> None, iflow_exists |-> None,
     deploy_result |-> [status |-> None, message |-> None]]

\* The frame of a stand-alone batch_update_iflow_config call before it runs;
\* outcomes is the history of what the remote answered to each update
IdleBatchUpdate ==
    [pc |-> "idle", parameters |-> <<>>, idx |-> 0, failures |-> <<>>,
     calls |-> <<>>, outcomes |-> <<>>]

\* self.token_expiry = None
NoExpiry == -1

\* The record of an artifact whose workflow has got through steps 1 to 4
ReadyToDeploy(artifact) ==
    [DeploymentProgress(artifact) EXCEPT
        !.overallStatus = "in-progress", !.startTime = "set",
        !.uploadStatus = "completed", !.uploadProgress = 100,
        !.configureStatus = "completed", !.configureProgress = 100]

\* One call of a client method by a workflow: entry is what the client's
\* clock and token fields were when it entered _get_auth_headers, refreshes
\* the token requests it has sent, token_status the status the token
\* endpoint answered with, sent the request it posted (when, with which
\* bearer token, and the expiry the client holds for that token), response
\* what the remote answered, result what the method returned and
\* progress_item the record of the calling workflow
NewCall ==
    [pc |-> "idle",
     progress_item |-> ReadyToDeploy(Artifact(1)),
     token_status |-> 0,
     entry |-> [now |-> 0, oauth_token |-> None, token_expiry |-> NoExpiry],
     refreshes |-> 0,
     sent |-> [at |-> 0, token |-> None, expiry |-> NoExpiry],
     response |-> [status_code |-> 0, text |-> ""],
     result |-> [status |-> None, message |-> None],
     error |-> None]

\* SAPDynamicClient.__init__ of target_client, with the clock and the
\* workflows of a batch of two artifacts about to call through the client
NewClient ==
    [now |-> 0, oauth_token |-> None, token_expiry |-> NoExpiry, issued |-> 0,
     callers |-> [k \in 1..2 |->
                     [NewCall EXCEPT !.progress_item = ReadyToDeploy(Artifact(k))]]]

RECURSIVE SeqSum(_)
SeqSum(s) == IF s = <<>> THEN 0 ELSE Head(s) + SeqSum(Tail(s))

SubmittedArtifacts == SeqSum([r \in 1..Len(exec) |-> Len(exec[r].artifacts)])

\* request.artifacts: up to n distinct artifacts
ArtifactLists(n) == { [i \in 1..k |-> Artifact(i)] : k \in 0..n }

-----------------------------------------------------------------------------
(* Tenant client: batch_update_iflow_config *)

\* One entry of a task's record of the client methods it has invoked
Call(op, tenant, arg) == [op |-> op, tenant |-> tenant, arg |-> arg]

\* The exception text of update_iflow_config_param
ParamError(key) == "Failed to update parameter '" \o key \o "'"

RECURSIVE FailuresText(_)
FailuresText(failures) ==
    IF failures = <<>> THEN ""
    ELSE "{" \o Head(failures).ParameterKey \o ": " \o Head(failures).Error \o "}"
         \o FailuresText(Tail(failures))

\* The exception text of batch_update_iflow_config
AggregateError(failures) ==
    "Some parameters failed to update: [" \o FailuresText(failures) \o "]"

\* batch_update_iflow_config from its entry to its first await.  b is the
\* frame of the caller holding parameters, idx, failures, calls and pc.
batch_update_iflow_config_enter(b, tenant) ==
    IF b.parameters = <<>>
    THEN [b EXCEPT !.failures = <<>>, !.idx = 0, !.pc = "batch_returned"]
    ELSE [b EXCEPT !.failures = <<>>, !.idx = 1, !.pc = "update_iflow_config_param",
                   !.calls = Append(@, Call("update_iflow_config_param", tenant,
                                            b.parameters[1].Parameter_Key))]

\* The loop with a fail-fast policy: the first failed row ends it
batch_update_iflow_config_failfast(b, ok, tenant) ==
    LET key == b.parameters[b.idx].Parameter_Key
        failures == IF ok THEN b.failures
                    ELSE Append(b.failures,
                                [ParameterKey |-> key, Error |-> ParamError(key)])
    IN  IF ok /\ b.idx < Len(b.parameters)
        THEN [b EXCEPT !.failures = failures, !.idx = b.idx + 1,
                       !.calls = Append(@, Call("update_iflow_config_param", tenant,
                                                b.parameters[b.idx + 1].Parameter_Key))]
        ELSE [b EXCEPT !.failures = failures,
                       !.pc = IF failures # <<>> THEN "batch_raised"
                              ELSE "batch_returned"]

\* The loop keeping only the latest failure
batch_update_iflow_config_lastonly(b, ok, tenant) ==
    LET key == b.parameters[b.idx].Parameter_Key
        failures == IF ok THEN b.failures
                    ELSE <<[ParameterKey |-> key, Error |-> ParamError(key)]>>
    IN  IF b.idx < Len(b.parameters)
        THEN [b EXCEPT !.failures = failures, !.idx = b.idx + 1,
                       !.calls = Append(@, Call("update_iflow_config_param", tenant,
                                                b.parameters[b.idx + 1].Parameter_Key))]
        ELSE [b EXCEPT !.failures = failures,
                       !.pc = IF failures # <<>> THEN "batch_raised"
                              ELSE "batch_returned"]

\* The loop logging its failures without raising at the end
batch_update_iflow_config_swallow(b, ok, tenant) ==
    LET key == b.parameters[b.idx].Parameter_Key
        failures == IF ok THEN b.failures
                    ELSE Append(b.failures,
                                [ParameterKey |-> key, Error |-> ParamError(key)])
    IN  IF b.idx < Len(b.parameters)
        THEN [b EXCEPT !.failures = failures, !.idx = b.idx + 1,
                       !.calls = Append(@, Call("update_iflow_config_param", tenant,
                                                b.parameters[b.idx + 1].Parameter_Key))]
        ELSE [b EXCEPT !.failures = failures, !.pc = "batch_returned"]

\* batch_update_iflow_config from the return of the update of row idx
\* (ok: the update returned True; otherwise it raised) to its next await,
\* its return or its raise.
batch_update_iflow_config_resume(b, ok, tenant) ==
    LET key == b.parameters[b.idx].Parameter_Key
        failures == IF ok THEN b.failures
                    ELSE Append(b.failures,
                                [ParameterKey |-> key, Error |-> ParamError(key)])
    IN  IF b.idx < Len(b.parameters)
        THEN [b EXCEPT !.failures = failures, !.idx = b.idx + 1,
                       !.calls = Append(@, Call("update_iflow_config_param", tenant,
                                                b.parameters[b.idx + 1].Parameter_Key))]
        ELSE [b EXCEPT !.failures = failures,
                       !.pc = IF failures # <<>> THEN "batch_raised"
                              ELSE "batch_returned"]

-----------------------------------------------------------------------------
(* Session store and submission *)

\* What an endpoint answers to a request: the status, the detail of an
\* HTTPException and the objects of the body
Response(endpoint, deployment_id, status_code, detail, body) ==
    [request |-> [endpoint |-> endpoint, deployment_id |-> deployment_id],
     status_code |-> status_code, detail |-> detail, body |-> body]

\* No request has been handled yet
NoReply == Response(None, None, 0, "", <<>>)

\* f"deploy_{timestamp}_{len(deployment_sessions)}"
GeneratedId == "deploy_" \o ToString(Cardinality(DOMAIN deployment_sessions))

\* The handler running the executor up to its gather before it answers
batch_deploy_artifacts_inline(request) ==
    LET deployment_id == IF request.deployment_id # None
                         THEN request.deployment_id ELSE GeneratedId
        progress == [i \in 1..Len(request.artifacts) |->
                        DeploymentProgress(request.artifacts[i])]
        deployment_response ==
            [deployment_id |-> deployment_id,
             target_environment |-> request.target_environment,
             total_artifacts |-> Len(request.artifacts),
             status |-> "in-progress",
             progress |-> progress,
             start_time |-> Len(session) + 1,
             estimated_completion |-> None]
    IN  /\ session' = Append(session, deployment_response)
        /\ deployment_sessions' =
               (deployment_id :> (Len(session) + 1)) @@ deployment_sessions
        /\ exec' = Append(exec, [pc |-> "gather",
                                 deployment_id |-> deployment_id,
                                 artifacts |-> request.artifacts,
                                 target_environment |-> request.target_environment,
                                 deployment |-> Len(session) + 1,
                                 raised |-> FALSE])
        /\ wf' = Append(wf, [i \in 1..Len(request.artifacts) |-> NewWorkflow])
        /\ reply' = Response("batch", request.deployment_id, 200, "",
                              <<deployment_response>>)
        /\ UNCHANGED <<bu, tc, configurations>>

\* POST /api/sap/deploy/batch
batch_deploy_artifacts(request) ==
    LET deployment_id == IF request.deployment_id # None
                         THEN request.deployment_id ELSE GeneratedId
        progress == [i \in 1..Len(request.artifacts) |->
                        DeploymentProgress(request.artifacts[i])]
        deployment_response ==
            [deployment_id |-> deployment_id,
             target_environment |-> request.target_environment,
             total_artifacts |-> Len(request.artifacts),
             status |-> "initialized",
             progress |-> progress,
             start_time |-> Len(session) + 1,
             estimated_completion |-> None]
    IN  /\ session' = Append(session, deployment_response)
        /\ deployment_sessions' =
               (deployment_id :> (Len(session) + 1)) @@ deployment_sessions
        /\ exec' = Append(exec, [pc |-> "scheduled",
                                 deployment_id |-> deployment_id,
                                 artifacts |-> request.artifacts,
                                 target_environment |-> request.target_environment,
                                 deployment |-> 0,
                                 raised |-> FALSE])
        /\ wf' = Append(wf, <<>>)
        /\ reply' = Response("batch", request.deployment_id, 200, "",
                              <<deployment_response>>)
        /\ UNCHANGED <<bu, tc, configurations>>

Submit ==
    /\ Len(session) < MaxBatches
    /\ \E id \in RequestIds, env \in Environments,
          arts \in ArtifactLists(MaxArtifacts - SubmittedArtifacts) :
          batch_deploy_artifacts([deployment_id |-> id, artifacts |-> arts,
                                  target_environment |-> env])

-----------------------------------------------------------------------------
(* Executor *)

CountStatus(progress, st) ==
    Cardinality({i \in 1..Len(progress) : progress[i].overallStatus = st})

\* The aggregation without the all-failed case
FinalStatus_nofailed(progress) ==
    LET failed_count == CountStatus(progress, "failed")
    IN  IF failed_count = 0 THEN "completed" ELSE "partial"

\* The aggregation after the gather
FinalStatus(progress) ==
    LET completed_count == CountStatus(progress, "completed")
        failed_count == CountStatus(progress, "failed")
    IN  IF failed_count = 0 THEN "completed"
        ELSE IF completed_count = 0 THEN "failed"
        ELSE "partial"

Aggregated(deployment) ==
    [deployment EXCEPT !.status = FinalStatus(deployment.progress),
                       !.estimated_completion = "set"]

\* The handler without the completion timestamp
ExecutorFailed_nostamp(deployment) == [deployment EXCEPT !.status = "failed"]

\* except Exception of execute_batch_deployment
ExecutorFailed(deployment) ==
    [deployment EXCEPT !.status = "failed", !.estimated_completion = "set"]

\* execute_batch_deployment from its first step to the await of the gather.
\* credentials: whether both load_tenant_credentials calls return.
execute_batch_deployment_start(r, credentials) ==
    LET d == deployment_sessions[exec[r].deployment_id]
        deployment == [session[d] EXCEPT !.status = "in-progress"]
    IN  /\ exec[r].pc = "scheduled"
        /\ UNCHANGED <<deployment_sessions, bu, tc, reply, configurations>>
        /\ IF ~credentials
           THEN \* except Exception of the executor
                /\ session' = [session EXCEPT ![d] = ExecutorFailed(deployment)]
                /\ exec' = [exec EXCEPT ![r].pc = "done", ![r].deployment = d,
                                        ![r].raised = TRUE]
                /\ UNCHANGED wf
           ELSE IF exec[r].artifacts = <<>>
           THEN \* a gather of nothing is already done: no suspension
                /\ session' = [session EXCEPT ![d] = Aggregated(deployment)]
                /\ exec' = [exec EXCEPT ![r].pc = "done", ![r].deployment = d]
                /\ UNCHANGED wf
           ELSE /\ session' = [session EXCEPT ![d] = deployment]
                /\ exec' = [exec EXCEPT ![r].pc = "gather", ![r].deployment = d]
                /\ wf' = [wf EXCEPT ![r] =
                             [i \in 1..Len(exec[r].artifacts) |-> NewWorkflow]]

\* A gather that does not wait for its tasks
Settled_nowait(w) == TRUE

\* A gather that returns only when every task ended without an exception
Settled_noerror(w) == w.pc = "done" /\ w.raised = None

Settled(w) == w.pc \in {"done", "crashed"}

\* execute_batch_deployment from the return of the gather to its end
execute_batch_deployment_finish(r) ==
    LET d == exec[r].deployment
    IN  /\ exec[r].pc = "gather"
        /\ \A i \in 1..Len(wf[r]) : Settled(wf[r][i])
        /\ session' = [session EXCEPT ![d] = Aggregated(session[d])]
        /\ exec' = [exec EXCEPT ![r].pc = "done"]
        /\ UNCHANGED <<deployment_sessions, wf, bu, tc, reply, configurations>>

-----------------------------------------------------------------------------
(* Artifact workflow: deploy_single_artifact *)

SourceTenant == "CCCI_SANDBOX"   \* tenant of source_client
TargetTenant == "CCCI_PROD"      \* tenant of target_client

\* The task of executor r for index i invokes a client method and suspends on it
Invoke(w, op, tenant, arg) ==
    [w EXCEPT !.pc = op, !.calls = Append(@, Call(op, tenant, arg))]

\* str(e) of an exception raised by a client method
ErrorText(op) == op \o " raised"

\* except Exception of deploy_single_artifact
Failed(progress_item, e) ==
    [progress_item EXCEPT !.overallStatus = "failed",
                          !.errorMessage = e,
                          !.message = "Deployment failed: " \o e,
                          !.endTime = "set"]

\* The pair (progress record, task frame) a segment of the workflow ends in
Outcome(progress_item, w) == [progress_item |-> progress_item, w |-> w]

\* A handler that records the failure and goes on to the deploy step
Raise_continue(progress_item, w, at, e) ==
    Outcome(Failed(progress_item, e),
            Invoke([w EXCEPT !.raised = at], "deploy_iflow", TargetTenant,
                   progress_item.iflowId))

Raise(progress_item, w, at, e) ==
    Outcome(Failed(progress_item, e), [w EXCEPT !.pc = "done", !.raised = at])

\* Map tenant to ENV folder
env_folder(target_environment) ==
    IF target_environment = "CCCI_PROD" THEN "PRD"
    ELSE IF target_environment = "CCCI_SANDBOX" THEN "SANDBOX"
    ELSE target_environment

\* The rows of the file that match the artifact's id and version, in file order
MatchingRows(rows, artifact) ==
    SelectSeq(rows, LAMBDA row : /\ row.iFlow_ID = artifact.iflowId
                                 /\ row.iFlow_Version = artifact.version)

\* Step 5 up to the await of deploy_iflow
StartDeploy(progress_item, w, artifact) ==
    Outcome([progress_item EXCEPT !.deployStatus = "deploying",
                                  !.deployProgress = 10,
                                  !.message = "Deploying iFlow to runtime..."],
            Invoke(w, "deploy_iflow", TargetTenant, artifact.iflowId))

\* After batch_update_iflow_config returned True
ConfigApplied(progress_item, w, artifact) ==
    StartDeploy([progress_item EXCEPT !.configureStatus = "completed",
                                      !.configureProgress = 100],
                w, artifact)

\* Step 3 updating the iFlow without probing for it
PackageReady_noprobe(progress_item, w, artifact) ==
    Outcome([progress_item EXCEPT
                 !.configureStatus = "completed",
                 !.configureProgress = 100,
                 !.message = "Package ready, uploading or updating iFlow..."],
            Invoke(w, "update_iflow", TargetTenant, artifact.iflowId))

\* The end of step 2 and step 3 up to the await of iflow_exists
PackageReady(progress_item, w, artifact) ==
    Outcome([progress_item EXCEPT
                 !.configureStatus = "completed",
                 !.configureProgress = 100,
                 !.message = "Package ready, uploading or updating iFlow..."],
            Invoke(w, "iflow_exists", TargetTenant, artifact.iflowId))

\* Step 4 treating an artifact without configuration rows as an error
Configure_hardfail(progress_item, w, artifact, target_environment) ==
    LET p1 == [progress_item EXCEPT
                  !.configureStatus = "configuring",
                  !.message = "Applying configuration parameters..."]
        folder == env_folder(target_environment)
    IN  IF folder \notin DOMAIN configurations
        THEN Raise(p1, w, "open", "No such file or directory")
        ELSE LET parameters == MatchingRows(configurations[folder], artifact)
             IN  IF parameters # <<>>
                 THEN Outcome(p1, batch_update_iflow_config_enter(
                                      [w EXCEPT !.parameters = parameters],
                                      TargetTenant))
                 ELSE Raise([p1 EXCEPT !.configureStatus = "failed"], w, "open",
                            "No configuration parameters found.")

\* Step 4 taking a missing file for a file without rows
Configure_missing_soft(progress_item, w, artifact, target_environment) ==
    LET p1 == [progress_item EXCEPT
                  !.configureStatus = "configuring",
                  !.message = "Applying configuration parameters..."]
        folder == env_folder(target_environment)
        rows == IF folder \in DOMAIN configurations THEN configurations[folder] ELSE <<>>
        parameters == MatchingRows(rows, artifact)
    IN  IF parameters # <<>>
        THEN Outcome(p1, batch_update_iflow_config_enter(
                             [w EXCEPT !.parameters = parameters], TargetTenant))
        ELSE StartDeploy(
                 [p1 EXCEPT
                     !.configureStatus = "failed",
                     !.message = "No configuration parameters found for this iFlow/version.",
                     !.errorMessage = "No configuration parameters found.",
                     !.configureProgress = 0],
                 w, artifact)

\* Step 4 from its start to the first await of batch_update_iflow_config,
\* or on into step 5 when there is nothing to apply
Configure(progress_item, w, artifact, target_environment) ==
    LET p1 == [progress_item EXCEPT
                  !.configureStatus = "configuring",
                  !.message = "Applying configuration parameters..."]
        folder == env_folder(target_environment)
    IN  IF folder \notin DOMAIN configurations
        THEN \* open() raises
             Raise(p1, w, "open", "No such file or directory")
        ELSE LET parameters == MatchingRows(configurations[folder], artifact)
             IN  IF parameters # <<>>
                 THEN Outcome(p1, batch_update_iflow_config_enter(
                                      [w EXCEPT !.parameters = parameters],
                                      TargetTenant))
                 ELSE StartDeploy(
                          [p1 EXCEPT
                              !.configureStatus = "failed",
                              !.message = "No configuration parameters found for this iFlow/version.",
                              !.errorMessage = "No configuration parameters found.",
                              !.configureProgress = 0],
                          w, artifact)

\* deploy_iflow taking every 2xx answer for a started deployment
deploy_iflow_any2xx(iflow_id, status_code, text) ==
    IF status_code \in 200..299
    THEN [status |-> "deployed", message |-> "Deployment started for " \o iflow_id]
    ELSE [status |-> "failed",
          message |-> "Deployment failed: " \o ToString(status_code) \o " " \o text]

\* The result of deploy_iflow for the HTTP status and body the deploy trigger
\* answered with
deploy_iflow(iflow_id, status_code, text) ==
    IF status_code \in {200, 202}
    THEN [status |-> "deployed", message |-> "Deployment started for " \o iflow_id]
    ELSE [status |-> "failed",
          message |-> "Deployment failed: " \o ToString(status_code) \o " " \o text]

\* Step 5 marking the artifact completed whatever deploy_iflow returned
Deployed_anyresult(progress_item, w, deploy_result) ==
    Outcome([progress_item EXCEPT
                 !.deployStatus = IF deploy_result.status = "deployed"
                                  THEN "completed" ELSE "failed",
                 !.message = deploy_result.message,
                 !.overallStatus = "completed",
                 !.endTime = "set"],
            [w EXCEPT !.pc = "done", !.deploy_result = deploy_result])

\* Step 5 keeping the message of a failed result out of the error message
Deployed_nomessage(progress_item, w, deploy_result) ==
    Outcome([progress_item EXCEPT
                 !.deployStatus = IF deploy_result.status = "deployed"
                                  THEN "completed" ELSE "failed",
                 !.deployProgress = IF deploy_result.status = "deployed"
                                    THEN 100 ELSE 0,
                 !.message = deploy_result.message,
                 !.overallStatus = IF deploy_result.status = "deployed"
                                   THEN "completed" ELSE "failed",
                 !.endTime = "set"],
            [w EXCEPT !.pc = "done", !.deploy_result = deploy_result])

\* Step 5 after deploy_iflow returned
Deployed(progress_item, w, deploy_result) ==
    IF deploy_result.status = "deployed"
    THEN Outcome([progress_item EXCEPT !.deployStatus = "completed",
                                       !.deployProgress = 100,
                                       !.message = deploy_result.message,
                                       !.overallStatus = "completed",
                                       !.endTime = "set"],
                 [w EXCEPT !.pc = "done", !.deploy_result = deploy_result])
    ELSE Outcome([progress_item EXCEPT !.deployStatus = "failed",
                                       !.deployProgress = 0,
                                       !.message = deploy_result.message,
                                       !.errorMessage = deploy_result.message,
                                       !.overallStatus = "failed",
                                       !.endTime = "set"],
                 [w EXCEPT !.pc = "done", !.deploy_result = deploy_result])

\* The segment of the task (r, i) that starts at pc, with the outcome of the
\* awaited call as input
Suspended(r, i, pc) ==
    /\ r \in 1..Len(wf)
    /\ i \in 1..Len(wf[r])
    /\ wf[r][i].pc = pc

Commit(r, i, o) ==
    /\ session' = [session EXCEPT ![exec[r].deployment].progress[i] = o.progress_item]
    /\ wf' = [wf EXCEPT ![r][i] = o.w]
    /\ UNCHANGED <<deployment_sessions, exec, bu, tc, reply, configurations>>

Item(r, i) == session[exec[r].deployment].progress[i]

\* First run of the task: up to the await of fetch_iflow_artifact
deploy_single_artifact_start(r, i) ==
    /\ Suspended(r, i, "start")
    /\ IF i > Len(session[exec[r].deployment].progress)
       THEN \* deployment.progress[index] raises IndexError outside the try
            /\ wf' = [wf EXCEPT ![r][i].pc = "crashed", ![r][i].raised = "index"]
            /\ UNCHANGED <<session, deployment_sessions, exec, bu, tc, reply,
                           configurations>>
       ELSE Commit(r, i,
                Outcome([Item(r, i) EXCEPT
                            !.overallStatus = "in-progress",
                            !.startTime = "set",
                            !.uploadStatus = "fetching",
                            !.message = "Fetching artifact from CCCI_SANDBOX..."],
                        Invoke(wf[r][i], "fetch_iflow_artifact", SourceTenant,
                               exec[r].artifacts[i].iflowId)))

fetch_iflow_artifact_return(r, i, ok) ==
    /\ Suspended(r, i, "fetch_iflow_artifact")
    /\ Commit(r, i,
          IF ok
          THEN Outcome([Item(r, i) EXCEPT
                           !.uploadStatus = "completed",
                           !.uploadProgress = 100,
                           !.configureStatus = "checking",
                           !.message = "Checking if package exists in CCCI_PROD..."],
                       Invoke(wf[r][i], "package_exists", TargetTenant,
                              exec[r].artifacts[i].packageId))
          ELSE Raise(Item(r, i), wf[r][i], "fetch_iflow_artifact",
                     ErrorText("fetch_iflow_artifact")))

\* answer: "true", "false" (the probe returned) or "raise"
package_exists_return(r, i, answer) ==
    /\ Suspended(r, i, "package_exists")
    /\ Commit(r, i,
          CASE answer = "true" ->
                   PackageReady(Item(r, i),
                                [wf[r][i] EXCEPT !.package_exists = answer],
                                exec[r].artifacts[i])
            [] answer = "false" ->
                   Outcome(Item(r, i),
                           Invoke([wf[r][i] EXCEPT !.package_exists = answer],
                                  "get_package_details", SourceTenant,
                                  exec[r].artifacts[i].packageId))
            [] OTHER ->
                   Raise(Item(r, i), wf[r][i], "package_exists",
                         ErrorText("package_exists")))

\* Passing on what the source answered as it came
Unwrapped_asis(source_package_data) == source_package_data

\* Use only the 'd' property if present
Unwrapped(source_package_data) ==
    IF "d" \in DOMAIN source_package_data
    THEN source_package_data.d ELSE source_package_data

\* The Id in the payload create_package_from_source builds from the allowed
\* top-level fields of its argument
PayloadId(source_package_data) ==
    IF "Id" \in DOMAIN source_package_data THEN source_package_data.Id ELSE ""

\* get_package_details returned source_package_data
PackageDetails(progress_item, w, source_package_data) ==
    Outcome(progress_item,
            Invoke(w, "create_package_from_source", TargetTenant,
                   PayloadId(Unwrapped(source_package_data))))

\* answer: "d" (an OData envelope), "plain" or "raise"
get_package_details_return(r, i, answer) ==
    /\ Suspended(r, i, "get_package_details")
    /\ Commit(r, i,
          IF answer = "raise"
          THEN Raise(Item(r, i), wf[r][i], "get_package_details",
                     ErrorText("get_package_details"))
          ELSE PackageDetails(Item(r, i), wf[r][i],
                   IF answer = "d"
                   THEN [d |-> PackageData(exec[r].artifacts[i].packageId)]
                   ELSE PackageData(exec[r].artifacts[i].packageId)))

create_package_from_source_return(r, i, ok) ==
    /\ Suspended(r, i, "create_package_from_source")
    /\ Commit(r, i,
          IF ok
          THEN PackageReady(Item(r, i), wf[r][i], exec[r].artifacts[i])
          ELSE Raise(Item(r, i), wf[r][i], "create_package_from_source",
                     ErrorText("create_package_from_source")))

\* Step 3 uploading whatever the probe answered
UploadOrUpdate_always_upload(progress_item, w, artifact, answer) ==
    Outcome(progress_item,
            Invoke([w EXCEPT !.iflow_exists = answer], "upload_iflow",
                   TargetTenant, artifact.iflowId))

\* Step 3 after iflow_exists returned answer
UploadOrUpdate(progress_item, w, artifact, answer) ==
    Outcome(progress_item,
            Invoke([w EXCEPT !.iflow_exists = answer],
                   IF answer = "true" THEN "update_iflow" ELSE "upload_iflow",
                   TargetTenant, artifact.iflowId))

iflow_exists_return(r, i, answer) ==
    /\ Suspended(r, i, "iflow_exists")
    /\ Commit(r, i,
          CASE answer \in {"true", "false"} ->
                   UploadOrUpdate(Item(r, i), wf[r][i], exec[r].artifacts[i], answer)
            [] OTHER ->
                   Raise(Item(r, i), wf[r][i], "iflow_exists",
                         ErrorText("iflow_exists")))

\* op: update_iflow or upload_iflow
upload_iflow_return(r, i, op, ok) ==
    /\ Suspended(r, i, op)
    /\ Commit(r, i,
          IF ok
          THEN Configure(Item(r, i), wf[r][i], exec[r].artifacts[i],
                         exec[r].target_environment)
          ELSE Raise(Item(r, i), wf[r][i], op, ErrorText(op)))

update_iflow_config_param_return(r, i, ok) ==
    /\ Suspended(r, i, "update_iflow_config_param")
    /\ LET w == batch_update_iflow_config_resume(wf[r][i], ok, TargetTenant)
       IN  Commit(r, i,
              CASE w.pc = "batch_raised" ->
                       Raise(Item(r, i), w, "batch_update_iflow_config",
                             AggregateError(w.failures))
                [] w.pc = "batch_returned" ->
                       ConfigApplied(Item(r, i), w, exec[r].artifacts[i])
                [] OTHER -> Outcome(Item(r, i), w))

deploy_iflow_return(r, i, status_code) ==
    /\ Suspended(r, i, "deploy_iflow")
    /\ Commit(r, i,
          Deployed(Item(r, i), wf[r][i],
                   deploy_iflow(exec[r].artifacts[i].iflowId, status_code,
                                DeployRefusedText)))

\* deploy_iflow raises (its token refresh or its request fails)
deploy_iflow_raise(r, i) ==
    /\ Suspended(r, i, "deploy_iflow")
    /\ Commit(r, i, Raise(Item(r, i), wf[r][i], "deploy_iflow",
                          ErrorText("deploy_iflow")))

-----------------------------------------------------------------------------
(* Specification of the orchestrator *)

Init ==
    /\ session = <<>>
    /\ deployment_sessions = <<>>
    /\ exec = <<>>
    /\ wf = <<>>
    /\ bu = IdleBatchUpdate
    /\ tc = NewClient
    /\ reply = NoReply
    /\ configurations = ConfigFiles

\* The tasks the executors have created
Tasks == UNION { {<<r, i>> : i \in 1..Len(wf[r])} : r \in 1..Len(wf) }

WorkflowStart == \E t \in Tasks : deploy_single_artifact_start(t[1], t[2])

FetchReturn ==
    \E t \in Tasks, ok \in BOOLEAN : fetch_iflow_artifact_return(t[1], t[2], ok)

PackageExistsReturn ==
    \E t \in Tasks, answer \in {"true", "false", "raise"} :
        package_exists_return(t[1], t[2], answer)

PackageDetailsReturn ==
    \E t \in Tasks, answer \in {"d", "plain", "raise"} :
        get_package_details_return(t[1], t[2], answer)

CreatePackageReturn ==
    \E t \in Tasks, ok \in BOOLEAN :
        create_package_from_source_return(t[1], t[2], ok)

IflowExistsReturn ==
    \E t \in Tasks, answer \in {"true", "false", "raise"} :
        iflow_exists_return(t[1], t[2], answer)

UpdateIflowReturn ==
    \E t \in Tasks, ok \in BOOLEAN : upload_iflow_return(t[1], t[2], "update_iflow", ok)

UploadIflowReturn ==
    \E t \in Tasks, ok \in BOOLEAN : upload_iflow_return(t[1], t[2], "upload_iflow", ok)

ConfigParamReturn ==
    \E t \in Tasks, ok \in BOOLEAN :
        update_iflow_config_param_return(t[1], t[2], ok)

DeployReturn ==
    \E t \in Tasks, status_code \in DeployStatusCodes :
        deploy_iflow_return(t[1], t[2], status_code)

DeployRaise == \E t \in Tasks : deploy_iflow_raise(t[1], t[2])

ExecutorStart ==
    \E r \in 1..Len(exec), credentials \in BOOLEAN :
        execute_batch_deployment_start(r, credentials)

ExecutorFinish == \E r \in 1..Len(exec) : execute_batch_deployment_finish(r)

Next ==
    \/ Submit
    \/ ExecutorStart
    \/ WorkflowStart
    \/ FetchReturn
    \/ PackageExistsReturn
    \/ PackageDetailsReturn
    \/ CreatePackageReturn
    \/ IflowExistsReturn
    \/ UpdateIflowReturn
    \/ UploadIflowReturn
    \/ ConfigParamReturn
    \/ DeployReturn
    \/ DeployRaise
    \/ ExecutorFinish

Spec == Init /\ [][Next]_vars

\* The steps of the event loop: every task that is ready to run (a scheduled
\* executor, a workflow whose remote call has answered, a gather whose tasks
\* have all ended) is run
Run ==
    \/ ExecutorStart
    \/ WorkflowStart
    \/ FetchReturn
    \/ PackageExistsReturn
    \/ PackageDetailsReturn
    \/ CreatePackageReturn
    \/ IflowExistsReturn
    \/ UpdateIflowReturn
    \/ UploadIflowReturn
    \/ ConfigParamReturn
    \/ DeployReturn
    \/ DeployRaise
    \/ ExecutorFinish

\* Submissions for the production tenant under a caller-supplied id
SubmitLive ==
    /\ Len(session) < MaxBatches
    /\ \E id \in RequestIds \ {None},
          arts \in ArtifactLists(MaxArtifacts - SubmittedArtifacts) :
          batch_deploy_artifacts([deployment_id |-> id, artifacts |-> arts,
                                  target_environment |-> "CCCI_PROD"])

NextLive ==
    \/ SubmitLive
    \/ ExecutorStart
    \/ WorkflowStart
    \/ FetchReturn
    \/ PackageExistsReturn
    \/ PackageDetailsReturn
    \/ CreatePackageReturn
    \/ IflowExistsReturn
    \/ UpdateIflowReturn
    \/ UploadIflowReturn
    \/ ConfigParamReturn
    \/ DeployReturn
    \/ DeployRaise
    \/ ExecutorFinish

\* The orchestrator with every remote call answering and the event loop
\* running ready tasks
SpecLive == Init /\ [][NextLive]_vars /\ WF_vars(Run)

-----------------------------------------------------------------------------
(* Specification of a stand-alone batch_update_iflow_config call *)

RowLists(n) ==
    UNION { [1..k -> {ConfigRow("f1", "1.0.0", key) : key \in ParamKeys}] : k \in 0..n }

InitBatch ==
    /\ session = <<>>
    /\ deployment_sessions = <<>>
    /\ exec = <<>>
    /\ wf = <<>>
    /\ \E parameters \in RowLists(MaxRows) :
          bu = [IdleBatchUpdate EXCEPT !.parameters = parameters]
    /\ tc = NewClient
    /\ reply = NoReply
    /\ configurations = ConfigFiles

BatchCall ==
    /\ bu.pc = "idle"
    /\ bu' = batch_update_iflow_config_enter(bu, TargetTenant)
    /\ UNCHANGED <<session, deployment_sessions, exec, wf, tc, reply, configurations>>

BatchParamReturn ==
    /\ bu.pc = "update_iflow_config_param"
    /\ \E ok \in BOOLEAN :
          bu' = [batch_update_iflow_config_resume(bu, ok, TargetTenant)
                    EXCEPT !.outcomes = Append(@, ok)]
    /\ UNCHANGED <<session, deployment_sessions, exec, wf, tc, reply, configurations>>

NextBatch == BatchCall \/ BatchParamReturn

SpecBatch == InitBatch /\ [][NextBatch]_vars

-----------------------------------------------------------------------------
(* Specification of the orchestrator with the polling endpoint *)

\* The endpoint answering an unknown id with an empty success
get_deployment_status_lenient(deployment_id) ==
    IF deployment_id \notin DOMAIN deployment_sessions
    THEN Response("status", deployment_id, 200, "", <<>>)
    ELSE Response("status", deployment_id, 200, "",
                  <<session[deployment_sessions[deployment_id]]>>)

\* GET /api/sap/deploy/status/{deployment_id}
get_deployment_status(deployment_id) ==
    IF deployment_id \notin DOMAIN deployment_sessions
    THEN Response("status", deployment_id, 404, "Deployment session not found", <<>>)
    ELSE Response("status", deployment_id, 200, "",
                  <<session[deployment_sessions[deployment_id]]>>)

GetStatus ==
    /\ \E deployment_id \in PolledIds : reply' = get_deployment_status(deployment_id)
    /\ UNCHANGED <<session, deployment_sessions, exec, wf, bu, tc, configurations>>

\* The keys of the dict in insertion order: a key keeps the place of its
\* first insertion when its value is assigned again
RECURSIVE StoreKeys(_)
StoreKeys(n) ==
    IF n = 0 THEN <<>>
    ELSE LET keys == StoreKeys(n - 1)
             deployment_id == session[n].deployment_id
         IN  IF \E k \in 1..Len(keys) : keys[k] = deployment_id
             THEN keys ELSE Append(keys, deployment_id)

\* A summary counting as failed whatever is not completed
SessionSummary_derived(deployment_id) ==
    LET deployment == session[deployment_sessions[deployment_id]]
        completed_count == CountStatus(deployment.progress, "completed")
    IN  [deployment_id |-> deployment_id,
         target_environment |-> deployment.target_environment,
         total_artifacts |-> deployment.total_artifacts,
         completed_artifacts |-> completed_count,
         failed_artifacts |-> deployment.total_artifacts - completed_count,
         status |-> deployment.status,
         start_time |-> deployment.start_time,
         estimated_completion |-> deployment.estimated_completion]

\* The entry list_deployment_sessions appends for one item of the dict
SessionSummary(deployment_id) ==
    LET deployment == session[deployment_sessions[deployment_id]]
    IN  [deployment_id |-> deployment_id,
         target_environment |-> deployment.target_environment,
         total_artifacts |-> deployment.total_artifacts,
         completed_artifacts |-> CountStatus(deployment.progress, "completed"),
         failed_artifacts |-> CountStatus(deployment.progress, "failed"),
         status |-> deployment.status,
         start_time |-> deployment.start_time,
         estimated_completion |-> deployment.estimated_completion]

\* GET /api/sap/deploy/sessions
list_deployment_sessions ==
    LET keys == StoreKeys(Len(session))
    IN  Response("sessions", None, 200, "",
                 [k \in 1..Len(keys) |-> SessionSummary(keys[k])])

ListSessions ==
    /\ reply' = list_deployment_sessions
    /\ UNCHANGED <<session, deployment_sessions, exec, wf, bu, tc, configurations>>

SubmitPolled ==
    /\ Len(session) < MaxBatches
    /\ \E id \in RequestIds, env \in Environments,
          arts \in ArtifactLists(MaxPolled - SubmittedArtifacts) :
          batch_deploy_artifacts([deployment_id |-> id, artifacts |-> arts,
                                  target_environment |-> env])

NextStore ==
    \/ SubmitPolled
    \/ GetStatus
    \/ ListSessions
    \/ ExecutorStart
    \/ WorkflowStart
    \/ FetchReturn
    \/ PackageExistsReturn
    \/ PackageDetailsReturn
    \/ CreatePackageReturn
    \/ IflowExistsReturn
    \/ UpdateIflowReturn
    \/ UploadIflowReturn
    \/ ConfigParamReturn
    \/ DeployReturn
    \/ DeployRaise
    \/ ExecutorFinish

SpecStore == Init /\ [][NextStore]_vars

-----------------------------------------------------------------------------
(* Specification of a stand-alone tenant client whose deploy_iflow is called *)

\* _is_token_expired with a strict comparison
is_token_expired_strict(client) ==
    IF client.token_expiry = NoExpiry THEN TRUE
    ELSE client.now + 60 > client.token_expiry

\* _is_token_expired
is_token_expired(client) ==
    IF client.token_expiry = NoExpiry THEN TRUE
    ELSE client.now + 60 >= client.token_expiry

\* The call k posts its request with the headers _get_auth_headers returned
PostDeploy(client, k) ==
    [client EXCEPT !.callers[k].pc = "post",
                   !.callers[k].sent = [at |-> client.now,
                                        token |-> client.oauth_token,
                                        expiry |-> client.token_expiry]]

\* _get_auth_headers with a single-flight guard: a call that finds a refresh
\* of the client in flight waits for it
deploy_iflow_enter_singleflight(client, k) ==
    LET entered == [client EXCEPT !.callers[k].entry =
                       [now |-> client.now, oauth_token |-> client.oauth_token,
                        token_expiry |-> client.token_expiry]]
    IN  IF client.oauth_token = None \/ is_token_expired(client)
        THEN IF \E j \in DOMAIN client.callers : client.callers[j].pc = "refresh"
             THEN [entered EXCEPT !.callers[k].pc = "wait"]
             ELSE [entered EXCEPT !.callers[k].pc = "refresh",
                                  !.callers[k].refreshes = @ + 1]
        ELSE PostDeploy(entered, k)

\* deploy_iflow from its entry, through _get_auth_headers, to its first await
deploy_iflow_enter(client, k) ==
    LET entered == [client EXCEPT !.callers[k].entry =
                       [now |-> client.now, oauth_token |-> client.oauth_token,
                        token_expiry |-> client.token_expiry]]
    IN  IF client.oauth_token = None \/ is_token_expired(client)
        THEN [entered EXCEPT !.callers[k].pc = "refresh",
                             !.callers[k].refreshes = @ + 1]
        ELSE PostDeploy(entered, k)

\* _refresh_token dropping the stored token when the endpoint refuses
refresh_token_return_clearing(client, k, ok, expires_in) ==
    IF ~ok
    THEN [client EXCEPT !.callers[k].pc = "raised",
                        !.callers[k].error = "HTTPStatusError",
                        !.oauth_token = None,
                        !.token_expiry = NoExpiry]
    ELSE PostDeploy([client EXCEPT
                        !.oauth_token = "t" \o ToString(client.issued + 1),
                        !.issued = @ + 1,
                        !.token_expiry = client.now + expires_in], k)

\* _refresh_token from the answer of the token endpoint, and on through
\* _get_auth_headers and deploy_iflow to the post of the deploy request.
\* ok: the answer is a 2xx; otherwise raise_for_status raises.
refresh_token_return(client, k, ok, expires_in) ==
    IF ~ok
    THEN [client EXCEPT !.callers[k].pc = "raised",
                        !.callers[k].error = "HTTPStatusError"]
    ELSE PostDeploy([client EXCEPT
                        !.oauth_token = "t" \o ToString(client.issued + 1),
                        !.issued = @ + 1,
                        !.token_expiry = client.now + expires_in], k)

ClientStep(client) ==
    /\ tc' = client
    /\ UNCHANGED <<session, deployment_sessions, exec, wf, bu, reply, configurations>>

\* Time passes between two segments
ClockTick ==
    /\ tc.now < MaxTime
    /\ ClientStep([tc EXCEPT !.now = @ + ClockStep])

\* An exception that has left deploy_iflow reaches the except Exception of
\* the calling workflow
HandleRaise(client, k) ==
    IF client.callers[k].pc = "raised"
    THEN [client EXCEPT !.callers[k].progress_item =
                            Failed(@, client.callers[k].error)]
    ELSE client

\* Step 5 of workflow k up to the first await inside deploy_iflow
ClientDeploy ==
    \E k \in DOMAIN tc.callers :
        /\ tc.callers[k].pc = "idle"
        /\ ClientStep(deploy_iflow_enter(
               [tc EXCEPT !.callers[k].progress_item =
                   StartDeploy(@, NewWorkflow, Artifact(k)).progress_item], k))

ClientRefreshReturn ==
    \E k \in DOMAIN tc.callers, status_code \in TokenStatusCodes,
       expires_in \in ExpiresIn :
        /\ tc.callers[k].pc = "refresh"
        /\ ClientStep(HandleRaise(
               refresh_token_return(
                   [tc EXCEPT !.callers[k].token_status = status_code],
                   k, status_code \in 200..299, expires_in), k))

ClientDeployReturn ==
    \E k \in DOMAIN tc.callers, status_code \in HttpStatusCodes,
       text \in ResponseTexts :
        /\ tc.callers[k].pc = "post"
        /\ LET result == deploy_iflow(Artifact(k).iflowId, status_code, text)
           IN  ClientStep([tc EXCEPT
                  !.callers[k].pc = "returned",
                  !.callers[k].response = [status_code |-> status_code, text |-> text],
                  !.callers[k].result = result,
                  !.callers[k].progress_item =
                      Deployed(@, NewWorkflow, result).progress_item])

\* client.post raises (the request does not get through)
ClientDeployRaise ==
    \E k \in DOMAIN tc.callers :
        /\ tc.callers[k].pc = "post"
        /\ ClientStep(HandleRaise([tc EXCEPT !.callers[k].pc = "raised",
                                             !.callers[k].error = "RequestError"], k))

NextClient ==
    \/ ClockTick
    \/ ClientDeploy
    \/ ClientRefreshReturn
    \/ ClientDeployReturn
    \/ ClientDeployRaise

SpecClient == Init /\ [][NextClient]_vars

-----------------------------------------------------------------------------
(* Specification of the configurations directory: save_iflow_configurations
   writes it, the workflows of submitted batches read it *)

\* request.environment and request.target_environment as callers send them
EnvironmentNames == {"CCCI_PROD", "CCCI_SANDBOX", "DEV", "dev", "Tst"}

\* The characters of an environment name
Chars(name) ==
    CASE name = "CCCI_PROD" -> <<"C", "C", "C", "I", "_", "P", "R", "O", "D">>
      [] name = "CCCI_SANDBOX" ->
             <<"C", "C", "C", "I", "_", "S", "A", "N", "D", "B", "O", "X">>
      [] name = "DEV" -> <<"D", "E", "V">>
      [] name = "dev" -> <<"d", "e", "v">>
      [] name = "Tst" -> <<"T", "s", "t">>

LowerCase ==
    <<"a", "b", "c", "d", "e", "f", "g", "h", "i", "j", "k", "l", "m",
      "n", "o", "p", "q", "r", "s", "t", "u", "v", "w", "x", "y", "z">>

UpperCase ==
    <<"A", "B", "C", "D", "E", "F", "G", "H", "I", "J", "K", "L", "M",
      "N", "O", "P", "Q", "R", "S", "T", "U", "V", "W", "X", "Y", "Z">>

\* str.upper() of one character
UpperChar(c) ==
    IF \E n \in 1..26 : LowerCase[n] = c
    THEN UpperCase[CHOOSE n \in 1..26 : LowerCase[n] = c]
    ELSE c

\* str.upper() of a sequence of characters
upper(characters) == [n \in 1..Len(characters) |-> UpperChar(characters[n])]

\* The string of a sequence of characters
RECURSIVE Join(_)
Join(characters) ==
    IF characters = <<>> THEN ""
    ELSE Head(characters) \o Join(Tail(characters))

\* CONFIGURATIONS_DIR / request.environment.upper(), as the folder's name
env_dir(environment) == Join(upper(Chars(environment)))

\* request.iflows: iFlows with the keys of their configurations, in order
SavedIflows ==
    { << [iflowId |-> "f1", version |-> "1.0.0", configurations |-> <<"k2">>] >>,
      << [iflowId |-> "f1", version |-> "1.0.0", configurations |-> <<"k1", "k2">>] >> }

\* The rows of one iFlow, one per configuration parameter
csv_rows(iflow) ==
    [k \in 1..Len(iflow.configurations) |->
        ConfigRow(iflow.iflowId, iflow.version, iflow.configurations[k])]

\* Prepare CSV data
RECURSIVE csv_data(_)
csv_data(iflows) ==
    IF iflows = <<>> THEN <<>>
    ELSE csv_rows(Head(iflows)) \o csv_data(Tail(iflows))

\* POST /api/save-iflow-configurations: the file of the environment's
\* folder is written anew and the answer names the file and the environment
save_iflow_configurations(request) ==
    LET folder == env_dir(request.environment)
        rows == csv_data(request.iflows)
    IN  /\ configurations' = (folder :> rows) @@ configurations
        /\ reply' = Response("save-iflow-configurations", None, 200, "",
                              << [file1 |-> folder,
                                  environment |-> request.environment,
                                  total_parameters |-> Len(rows)] >>)
        /\ UNCHANGED <<session, deployment_sessions, exec, wf, bu, tc>>

SaveConfigurations ==
    \E environment \in EnvironmentNames, iflows \in SavedIflows :
        /\ Cardinality((DOMAIN configurations \cup {env_dir(environment)})
                           \ DOMAIN ConfigFiles) <= MaxSaved
        /\ save_iflow_configurations([environment |-> environment,
                                      iflows |-> iflows])

\* Submissions of at least one artifact under generated ids, for any
\* environment name
SubmitConfig ==
    /\ Len(session) < MaxBatches
    /\ \E env \in EnvironmentNames,
          arts \in ArtifactLists(MaxPolled - SubmittedArtifacts) \ {<<>>} :
          batch_deploy_artifacts([deployment_id |-> None, artifacts |-> arts,
                                  target_environment |-> env])

NextConfig ==
    \/ SaveConfigurations
    \/ SubmitConfig
    \/ ExecutorStart
    \/ WorkflowStart
    \/ FetchReturn
    \/ PackageExistsReturn
    \/ PackageDetailsReturn
    \/ CreatePackageReturn
    \/ IflowExistsReturn
    \/ UpdateIflowReturn
    \/ UploadIflowReturn
    \/ ConfigParamReturn
    \/ DeployReturn
    \/ DeployRaise
    \/ ExecutorFinish

SpecConfig == Init /\ [][NextConfig]_vars

-----------------------------------------------------------------------------
(* Vocabulary of the properties *)

\* The executors that work on session d
Writers(d) == {r \in 1..Len(exec) : exec[r].deployment = d}

\* No executor but the one of its own submission works on session d
Exclusive(d) == Writers(d) \subseteq {d}

\* The step of the workflow an operation belongs to
PhaseOf(op) ==
    CASE op = "fetch_iflow_artifact" -> 1
      [] op \in {"package_exists", "get_package_details",
                 "create_package_from_source"} -> 2
      [] op \in {"iflow_exists", "update_iflow", "upload_iflow"} -> 3
      [] op \in {"open", "update_iflow_config_param",
                 "batch_update_iflow_config"} -> 4
      [] op = "deploy_iflow" -> 5

Ops(w) == {w.calls[k].op : k \in 1..Len(w.calls)}

\* An exception reached the handler of the workflow
Caught(w) == w.raised \notin {None, "index"}

Terminal(progress_item) == progress_item.overallStatus \in {"completed", "failed"}

\* The calls batch_update_iflow_config makes for rows 1..n of parameters
RowCalls(parameters, n) ==
    [k \in 1..n |-> Call("update_iflow_config_param", TargetTenant,
                         parameters[k].Parameter_Key)]

\* The keys of the rows whose update the remote refused, in row order
RECURSIVE FailedKeys(_, _)
FailedKeys(parameters, outcomes) ==
    IF outcomes = <<>> THEN <<>>
    ELSE LET n == Len(outcomes)
             front == FailedKeys(parameters, SubSeq(outcomes, 1, n - 1))
         IN  IF outcomes[n] THEN front
             ELSE Append(front, parameters[n].Parameter_Key)

BatchEnded == bu.pc \in {"batch_returned", "batch_raised"}

-----------------------------------------------------------------------------
(* Properties *)

\* C1: the step of submit_batch for N artifacts stores, under the session's
\* deployment id, a session with status initialized, total_artifacts = N and
\* N progress records, the i-th carrying the i-th artifact's id, name, version
\* and package, with overall, upload, configure and deploy status pending.
C1_SubmitStoresPendingSession ==
    [][Len(session') = Len(session) + 1 =>
        LET n == Len(session')
            s == session'[deployment_sessions'[exec'[n].deployment_id]]
            artifacts == exec'[n].artifacts
        IN  /\ deployment_sessions'[exec'[n].deployment_id] = n
            /\ exec'[n].pc = "scheduled"
            /\ s.status = "initialized"
            /\ s.total_artifacts = Len(artifacts)
            /\ Len(s.progress) = Len(artifacts)
            /\ \A i \in 1..Len(artifacts) :
                  /\ s.progress[i].iflowId = artifacts[i].iflowId
                  /\ s.progress[i].iflowName = artifacts[i].iflowName
                  /\ s.progress[i].version = artifacts[i].version
                  /\ s.progress[i].packageId = artifacts[i].packageId
                  /\ s.progress[i].packageName = artifacts[i].packageName
                  /\ s.progress[i].overallStatus = "pending"
                  /\ s.progress[i].uploadStatus = "pending"
                  /\ s.progress[i].configureStatus = "pending"
                  /\ s.progress[i].deployStatus = "pending"]_vars

C1_Witness ==
    \E r \in 1..Len(exec) :
        /\ exec[r].pc = "scheduled"
        /\ Len(exec[r].artifacts) = 2
        /\ deployment_sessions[exec[r].deployment_id] = r
        /\ session[r].status = "initialized"

\* C2: the status the executor's aggregation step assigns to a session of
\* N >= 1 settled records is completed if all are completed, failed if all
\* are failed, and partial if some are completed and some failed.
C2_AggregateStatus ==
    [][\A r \in 1..Len(exec) :
          (exec[r].pc = "gather" /\ exec'[r].pc = "done") =>
             LET deployment == session'[exec[r].deployment]
                 progress == deployment.progress
                 all(st) == \A i \in 1..Len(progress) : progress[i].overallStatus = st
                 some(st) == \E i \in 1..Len(progress) : progress[i].overallStatus = st
             IN  Len(progress) >= 1 =>
                   /\ all("completed") => deployment.status = "completed"
                   /\ all("failed") => deployment.status = "failed"
                   /\ (some("completed") /\ some("failed")) =>
                          deployment.status = "partial"]_vars

C2_Witness ==
    \E r \in 1..Len(exec) :
        /\ exec[r].pc = "done"
        /\ ~exec[r].raised
        /\ session[exec[r].deployment].status = "partial"
        /\ \A i \in 1..Len(session[exec[r].deployment].progress) :
              Terminal(session[exec[r].deployment].progress[i])

\* C3 as stated: a record whose overall status is completed has upload,
\* configure and deploy status completed.
C3_Original ==
    \A d \in 1..Len(session) : \A i \in 1..Len(session[d].progress) :
        session[d].progress[i].overallStatus = "completed" =>
            /\ session[d].progress[i].uploadStatus = "completed"
            /\ session[d].progress[i].configureStatus = "completed"
            /\ session[d].progress[i].deployStatus = "completed"

\* C3 as amended: in a session that only its own executor works on, a record whose
\* overall status is completed has upload and deploy status completed, and
\* configure status completed or else failed with the message that no
\* configuration parameters were found.
C3_CompletedPhases ==
    \A d \in 1..Len(session) : \A i \in 1..Len(session[d].progress) :
        (Exclusive(d) /\ session[d].progress[i].overallStatus = "completed") =>
            /\ session[d].progress[i].uploadStatus = "completed"
            /\ session[d].progress[i].deployStatus = "completed"
            /\ \/ session[d].progress[i].configureStatus = "completed"
               \/ /\ session[d].progress[i].configureStatus = "failed"
                  /\ session[d].progress[i].errorMessage =
                         "No configuration parameters found."

C3_Witness ==
    \E d \in 1..Len(session) : \E i \in 1..Len(session[d].progress) :
        /\ Exclusive(d)
        /\ session[d].progress[i].overallStatus = "completed"
        /\ session[d].progress[i].configureStatus = "failed"

\* The deploy fields and, after a failed fetch, the configure fields of a
\* record are as the submission left them
LaterPhasesUntouched(progress_item, phase) ==
    /\ phase < 5 => /\ progress_item.deployStatus = "pending"
                    /\ progress_item.deployProgress = 0
    /\ phase = 1 => /\ progress_item.configureStatus = "pending"
                    /\ progress_item.configureProgress = 0

\* No operation of a step after phase has been invoked, and the task is over
NoLaterCall(w, phase) ==
    /\ \A k \in 1..Len(w.calls) : PhaseOf(w.calls[k].op) <= phase
    /\ w.pc = "done"

\* C4 as stated: once a phase status of the artifact is failed or a call of
\* a phase has raised, no operation of a later phase is invoked for the
\* artifact and no later phase's status or percent changes.
C4_Original ==
    \A r \in 1..Len(wf) : \A i \in 1..Len(wf[r]) :
        (Exclusive(exec[r].deployment) /\ wf[r][i].pc \notin {"start", "crashed"}) =>
            /\ Caught(wf[r][i]) =>
                  /\ NoLaterCall(wf[r][i], PhaseOf(wf[r][i].raised))
                  /\ LaterPhasesUntouched(Item(r, i), PhaseOf(wf[r][i].raised))
            /\ Item(r, i).configureStatus = "failed" =>
                  /\ "deploy_iflow" \notin Ops(wf[r][i])
                  /\ LaterPhasesUntouched(Item(r, i), 4)

\* C4 as amended: once a call or a file read of a phase has raised, the
\* workflow is over: no operation of a later phase has been or will be
\* invoked for the artifact, and in a session that only its own executor works on the
\* status and percent of the later phases stay as submitted.  (A configure
\* status failed for want of configuration rows is no such failure.)
C4_NoAdvanceAfterRaise ==
    \A r \in 1..Len(wf) : \A i \in 1..Len(wf[r]) :
        Caught(wf[r][i]) =>
            /\ NoLaterCall(wf[r][i], PhaseOf(wf[r][i].raised))
            /\ Exclusive(exec[r].deployment) =>
                  LaterPhasesUntouched(Item(r, i), PhaseOf(wf[r][i].raised))

C4_Witness ==
    \E r \in 1..Len(wf) : \E i \in 1..Len(wf[r]) :
        /\ wf[r][i].raised = "create_package_from_source"
        /\ wf[r][i].pc = "done"
        /\ Item(r, i).deployStatus = "pending"

\* C5: a step of the workflow of executor r for index i changes no progress
\* record but record i of the session the executor works on, changes no
\* other task and not the executor, and an error raised in the workflow
\* leaves that record failed.
C5_WorkflowIsolation ==
    [][\A r \in 1..Len(wf) : \A i \in 1..Len(wf[r]) :
          wf'[r][i] # wf[r][i] =>
             /\ exec' = exec
             /\ \A r2 \in 1..Len(wf) : \A j \in 1..Len(wf[r2]) :
                   (r2 # r \/ j # i) => wf'[r2][j] = wf[r2][j]
             /\ \A d \in 1..Len(session) : \A j \in 1..Len(session[d].progress) :
                   (d # exec[r].deployment \/ j # i) =>
                       session'[d].progress[j] = session[d].progress[j]
             /\ wf'[r][i].raised # None =>
                   /\ i <= Len(session'[exec[r].deployment].progress)
                   /\ session'[exec[r].deployment].progress[i].overallStatus = "failed"
      ]_vars

\* C6 as stated: a session whose status is completed, failed or partial has
\* no pending or in-progress record.
C6_Original ==
    \A d \in 1..Len(session) :
        session[d].status \in {"completed", "failed", "partial"} =>
            \A i \in 1..Len(session[d].progress) : Terminal(session[d].progress[i])

\* C6 as amended: a session that only its own executor works on, whose status is
\* completed, failed or partial and was not set by the executor's own error
\* handler, has no pending or in-progress record.
C6_AggregateAfterSettled ==
    \A d \in 1..Len(session) :
        ( /\ session[d].status \in {"completed", "failed", "partial"}
          /\ Exclusive(d)
          /\ \A r \in Writers(d) : ~exec[r].raised ) =>
            \A i \in 1..Len(session[d].progress) : Terminal(session[d].progress[i])

C6_Witness ==
    \E d \in 1..Len(session) :
        /\ session[d].status = "failed"
        /\ Exclusive(d)
        /\ \A r \in Writers(d) : ~exec[r].raised
        /\ Len(session[d].progress) = 2
        /\ \A i \in 1..2 : session[d].progress[i].overallStatus = "failed"

\* C7: batch_update_iflow_config called with rows r1..rn makes exactly one
\* update_iflow_config_param call per row, in row order, whatever the
\* earlier calls answered: while it runs the calls made are those for rows
\* 1..idx, and it ends only after the call for row n.
C7_EveryRowAttempted ==
    /\ bu.pc = "update_iflow_config_param" =>
          /\ bu.idx \in 1..Len(bu.parameters)
          /\ bu.calls = RowCalls(bu.parameters, bu.idx)
    /\ BatchEnded => bu.calls = RowCalls(bu.parameters, Len(bu.parameters))

C7_Witness ==
    /\ BatchEnded
    /\ Len(bu.parameters) = 3
    /\ bu.outcomes[1] = FALSE
    /\ Len(bu.calls) = 3

\* C8: batch_update_iflow_config ends with the aggregate error exactly when
\* the update of at least one row failed, the failures the error lists are
\* those of the failed rows' keys and no others, and it returns when no row
\* failed.
C8_AggregateError ==
    BatchEnded =>
        /\ bu.pc = "batch_raised" <=> (\E k \in 1..Len(bu.outcomes) : ~bu.outcomes[k])
        /\ bu.pc = "batch_returned" <=> (\A k \in 1..Len(bu.outcomes) : bu.outcomes[k])
        /\ Len(bu.outcomes) = Len(bu.parameters)
        /\ [k \in 1..Len(bu.failures) |-> bu.failures[k].ParameterKey]
              = FailedKeys(bu.parameters, bu.outcomes)

C8_Witness ==
    /\ bu.pc = "batch_raised"
    /\ bu.outcomes = <<FALSE, TRUE, FALSE>>
    /\ Len(bu.failures) = 2

\* C9: when batch_update_iflow_config fails with its aggregate error inside
\* a workflow, the artifact's configure status is failed.
C9_ConfigureMarkedFailed ==
    \A r \in 1..Len(wf) : \A i \in 1..Len(wf[r]) :
        (Exclusive(exec[r].deployment)
           /\ wf[r][i].raised = "batch_update_iflow_config") =>
            Item(r, i).configureStatus = "failed"

\* The update loop of the workflow has ended with failures collected
LoopEndedWithFailures(w) ==
    /\ w.failures # <<>>
    /\ w.pc # "update_iflow_config_param"

\* C10 as stated: a workflow whose batch_update_iflow_config failed with the
\* aggregate error invokes deploy_iflow afterwards (at its end it has).
C10_Original ==
    \A r \in 1..Len(wf) : \A i \in 1..Len(wf[r]) :
        (LoopEndedWithFailures(wf[r][i]) /\ wf[r][i].pc = "done") =>
            "deploy_iflow" \in Ops(wf[r][i])

\* C10 as amended: when configuration rows exist and batch_update_iflow_config
\* fails with the aggregate error, the workflow ends there: deploy_iflow is
\* never invoked for the artifact, and in a session that only its own executor works on
\* the artifact's overall status is failed with the aggregate error as its
\* error message.
C10_NoDeployAfterAggregateError ==
    \A r \in 1..Len(wf) : \A i \in 1..Len(wf[r]) :
        LoopEndedWithFailures(wf[r][i]) =>
            /\ wf[r][i].pc = "done"
            /\ wf[r][i].raised = "batch_update_iflow_config"
            /\ "deploy_iflow" \notin Ops(wf[r][i])
            /\ Exclusive(exec[r].deployment) =>
                  /\ Item(r, i).overallStatus = "failed"
                  /\ Item(r, i).errorMessage = AggregateError(wf[r][i].failures)

C10_Witness ==
    \E r \in 1..Len(wf) : \E i \in 1..Len(wf[r]) :
        /\ wf[r][i].raised = "batch_update_iflow_config"
        /\ Len(wf[r][i].failures) = 1
        /\ wf[r][i].failures[1].ParameterKey = "k1"
        /\ Len(wf[r][i].calls) = Len(wf[r][i].parameters) + 4

\* The file of the target environment exists and none of its rows carries
\* the artifact's id and version
NoRowMatches(artifact, target_environment) ==
    LET folder == env_folder(target_environment)
    IN  /\ folder \in DOMAIN configurations
        /\ \A k \in 1..Len(configurations[folder]) :
              \/ configurations[folder][k].iFlow_ID # artifact.iflowId
              \/ configurations[folder][k].iFlow_Version # artifact.version

\* C11: when the upload or update of an artifact has returned and no row
\* of the target environment's file matches the artifact's id and version,
\* the same step raises no error, sets the configure status failed with the
\* error message 'No configuration parameters found.', leaves the overall
\* status as it was, has sent no parameter update and invokes deploy_iflow.
C11_NoRowsSoftFail ==
    [][\A r \in 1..Len(wf) : \A i \in 1..Len(wf[r]) :
          ( /\ wf[r][i].pc \in {"update_iflow", "upload_iflow"}
            /\ wf'[r][i].pc # wf[r][i].pc
            /\ wf'[r][i].raised \notin {"update_iflow", "upload_iflow"}
            /\ NoRowMatches(exec[r].artifacts[i], exec[r].target_environment) ) =>
             LET before == session[exec[r].deployment].progress[i]
                 after == session'[exec[r].deployment].progress[i]
             IN  /\ wf'[r][i].raised = None
                 /\ wf'[r][i].parameters = <<>>
                 /\ after.configureStatus = "failed"
                 /\ after.configureProgress = 0
                 /\ after.errorMessage = "No configuration parameters found."
                 /\ after.deployStatus = "deploying"
                 /\ after.overallStatus = before.overallStatus
                 /\ Exclusive(exec[r].deployment) => after.overallStatus = "in-progress"
                 /\ "update_iflow_config_param" \notin Ops(wf'[r][i])
                 /\ wf'[r][i].pc = "deploy_iflow"
                 /\ wf'[r][i].calls[Len(wf'[r][i].calls)].op = "deploy_iflow"
      ]_vars

C11_Witness ==
    \E r \in 1..Len(wf) : \E i \in 1..Len(wf[r]) :
        /\ Exclusive(exec[r].deployment)
        /\ NoRowMatches(exec[r].artifacts[i], exec[r].target_environment)
        /\ wf[r][i].pc = "deploy_iflow"
        /\ Item(r, i).configureStatus = "failed"
        /\ Item(r, i).overallStatus = "in-progress"

\* The token the call found on entry was missing, or its expiry was within
\* 60 seconds of the time of entry
DueOnEntry(call) ==
    \/ call.entry.oauth_token = None
    \/ call.entry.token_expiry = NoExpiry
    \/ call.entry.token_expiry - call.entry.now <= 60

\* The call has got its headers from _get_auth_headers
HeadersReturned(call) == call.pc \in {"post", "returned"}

\* C12: a call that has entered _get_auth_headers has issued exactly one
\* token refresh if the token was missing or its expiry within 60 seconds of
\* the current time on entry, and none if the expiry was more than 60
\* seconds ahead; it gets its headers without issuing another.
C12_RefreshIffExpiring ==
    \A k \in DOMAIN tc.callers :
        tc.callers[k].pc # "idle" =>
            tc.callers[k].refreshes = IF DueOnEntry(tc.callers[k]) THEN 1 ELSE 0

C12_Witness ==
    \E k \in DOMAIN tc.callers :
        /\ HeadersReturned(tc.callers[k])
        /\ tc.callers[k].entry.oauth_token # None
        /\ tc.callers[k].entry.token_expiry = tc.callers[k].entry.now + 30
        /\ tc.callers[k].refreshes = 1

\* C13: every request a client has sent carried a bearer token whose expiry
\* is later than the time the request was sent.
C13_NoExpiredToken ==
    \A k \in DOMAIN tc.callers :
        tc.callers[k].sent.token # None =>
            tc.callers[k].sent.expiry > tc.callers[k].sent.at

\* C14: deploy_iflow returns a result with status deployed exactly when the
\* deploy trigger answered 200 or 202, and for every other status a result
\* with status failed whose message carries the remote status and body.
C14_DeployResult ==
    \A k \in DOMAIN tc.callers :
        tc.callers[k].pc = "returned" =>
            LET status_code == tc.callers[k].response.status_code
                text == tc.callers[k].response.text
                result == tc.callers[k].result
            IN  /\ result.status = "deployed" <=> status_code \in {200, 202}
                /\ status_code \notin {200, 202} =>
                      /\ result.status = "failed"
                      /\ result.message = "Deployment failed: "
                             \o ToString(status_code) \o " " \o text

C14_Witness ==
    \E k \in DOMAIN tc.callers :
        /\ tc.callers[k].pc = "returned"
        /\ tc.callers[k].response = [status_code |-> 201, text |-> DeployRefusedText]
        /\ tc.callers[k].result.status = "failed"

\* C15: a call of deploy_iflow never ends by raising: whatever its steps
\* meet, it ends with a deployed or failed result.
C15_DeployNeverRaises ==
    \A k \in DOMAIN tc.callers :
        /\ tc.callers[k].pc # "raised"
        /\ tc.callers[k].pc = "returned" =>
              tc.callers[k].result.status \in {"deployed", "failed"}

\* C16: the step that ends the deploy phase of an artifact leaves, after a
\* deployed result, deploy status and overall status completed; after a
\* failed result, deploy status and overall status failed with the result's
\* message as message and as error message; after an error raised by
\* deploy_iflow, overall status failed with the error text as error message.
C16_DeployOutcome ==
    [][\A r \in 1..Len(wf) : \A i \in 1..Len(wf[r]) :
          (wf[r][i].pc = "deploy_iflow" /\ wf'[r][i].pc # "deploy_iflow") =>
             LET after == session'[exec[r].deployment].progress[i]
                 w == wf'[r][i]
             IN  /\ w.pc = "done"
                 /\ CASE w.raised = "deploy_iflow" ->
                            /\ after.overallStatus = "failed"
                            /\ after.errorMessage = ErrorText("deploy_iflow")
                       [] w.raised = None /\ w.deploy_result.status = "deployed" ->
                            /\ after.deployStatus = "completed"
                            /\ after.overallStatus = "completed"
                       [] w.raised = None /\ w.deploy_result.status = "failed" ->
                            /\ after.deployStatus = "failed"
                            /\ after.overallStatus = "failed"
                            /\ after.message = w.deploy_result.message
                            /\ after.errorMessage = w.deploy_result.message
                       [] OTHER -> FALSE
      ]_vars

C16_Witness ==
    \E r \in 1..Len(wf) : \E i \in 1..Len(wf[r]) :
        /\ Exclusive(exec[r].deployment)
        /\ wf[r][i].pc = "done"
        /\ wf[r][i].deploy_result.status = "failed"
        /\ Item(r, i).deployStatus = "failed"
        /\ Item(r, i).errorMessage = wf[r][i].deploy_result.message

\* C17: a request for the status of a deployment id changes neither the
\* store nor any session, executor or task; it is answered 404 with no
\* session when the id is not in the store, and with the session stored
\* under the id when it is.
C17_GetSession ==
    [][(reply' # reply /\ reply'.request.endpoint = "status") =>
          LET deployment_id == reply'.request.deployment_id
          IN  /\ deployment_sessions' = deployment_sessions
              /\ session' = session
              /\ exec' = exec
              /\ wf' = wf
              /\ IF deployment_id \in DOMAIN deployment_sessions
                 THEN /\ reply'.status_code = 200
                      /\ reply'.body = <<session[deployment_sessions[deployment_id]]>>
                 ELSE /\ reply'.status_code = 404
                      /\ reply'.detail = "Deployment session not found"
                      /\ reply'.body = <<>>
      ]_vars

C17_Witness ==
    /\ reply.request = [endpoint |-> "status", deployment_id |-> "unknown-id"]
    /\ reply.status_code = 404
    /\ Len(session) = 2
    /\ \E d \in 1..Len(session) : session[d].status = "in-progress"

\* The session has met an error of a remote tenant or of the credentials
Troubled(deployment) ==
    \/ deployment.status \in {"failed", "partial"}
    \/ \E i \in 1..Len(deployment.progress) :
          \/ deployment.progress[i].errorMessage # None
          \/ deployment.progress[i].overallStatus = "failed"

\* C18: the step of submit_batch answers 200 with the session it created,
\* in status initialized with every record pending and without error, while
\* the executor of the batch is only scheduled, no task of the batch exists
\* and no task of any batch has moved; a session shows an error only once an
\* executor has started on it.
C18_SubmitReturnsFirst ==
    /\ [](\A d \in 1..Len(session) : Troubled(session[d]) => Writers(d) # {})
    /\ [][Len(session') = Len(session) + 1 =>
            LET n == Len(session')
            IN  /\ reply'.request.endpoint = "batch"
                /\ reply'.status_code = 200
                /\ reply'.body = <<session'[n]>>
                /\ session'[n].status = "initialized"
                /\ ~Troubled(session'[n])
                /\ \A i \in 1..Len(session'[n].progress) :
                      session'[n].progress[i].overallStatus = "pending"
                /\ exec'[n].pc = "scheduled"
                /\ wf'[n] = <<>>
                /\ \A r \in 1..Len(wf) : wf'[r] = wf[r]
                /\ \A r \in 1..Len(exec) : exec'[r] = exec[r]
       ]_vars

C18_Witness ==
    \E d \in 1..Len(session) :
        /\ reply.request.endpoint = "batch"
        /\ reply.status_code = 200
        /\ reply.body[1].start_time = session[d].start_time
        /\ reply.body[1].status = "initialized"
        /\ Len(session[d].progress) = 2
        /\ exec[d].raised
        /\ session[d].status = "failed"

\* C19: every session that submit_batch has stored is what a request for
\* the status of its deployment id returns: the same start time and the
\* same artifacts.
C19_SessionKept ==
    \A d \in 1..Len(session) :
        LET answer == get_deployment_status(session[d].deployment_id)
        IN  /\ answer.status_code = 200
            /\ answer.body[1].start_time = session[d].start_time
            /\ Len(answer.body[1].progress) = Len(session[d].progress)
            /\ \A i \in 1..Len(session[d].progress) :
                  answer.body[1].progress[i].iflowId = session[d].progress[i].iflowId

\* C20: the step in which an executor meets an exception outside the
\* workflows ends the executor, leaves the session stored under its
\* deployment id with status failed and a completion timestamp, and changes
\* no record, no other session, no other executor, no task, not the store
\* and not the answer the submitter got.
C20_ExecutorErrorMarksSession ==
    [][\A r \in 1..Len(exec) :
          (~exec[r].raised /\ exec'[r].raised) =>
             LET d == deployment_sessions[exec[r].deployment_id]
             IN  /\ exec'[r].pc = "done"
                 /\ session'[d].status = "failed"
                 /\ session'[d].estimated_completion # None
                 /\ session'[d].progress = session[d].progress
                 /\ \A d2 \in 1..Len(session) : d2 # d => session'[d2] = session[d2]
                 /\ \A r2 \in 1..Len(exec) : r2 # r => exec'[r2] = exec[r2]
                 /\ wf' = wf
                 /\ deployment_sessions' = deployment_sessions
                 /\ reply' = reply
      ]_vars

C20_Witness ==
    \E r \in 1..Len(exec) : \E d2 \in 1..Len(session) :
        /\ exec[r].raised
        /\ exec[r].deployment = r
        /\ session[r].status = "failed"
        /\ session[r].estimated_completion # None
        /\ Len(session[r].progress) = 1
        /\ d2 # r
        /\ session[d2].status = "completed"
        /\ Len(session[d2].progress) = 1

\* C21: a request for the list of sessions changes neither the store nor
\* any session, executor or task, and is answered with one summary per
\* deployment id of the store, whose completed and failed counts are the
\* numbers of records of the session stored under that id with overall
\* status completed resp. failed at that moment, and add up to no more than
\* its total_artifacts.
C21_ListSessions ==
    [][(reply' # reply /\ reply'.request.endpoint = "sessions") =>
          LET sessions == reply'.body
          IN  /\ deployment_sessions' = deployment_sessions
              /\ session' = session
              /\ exec' = exec
              /\ wf' = wf
              /\ reply'.status_code = 200
              /\ Len(sessions) = Cardinality(DOMAIN deployment_sessions)
              /\ \A deployment_id \in DOMAIN deployment_sessions :
                    Cardinality({k \in 1..Len(sessions) :
                                    sessions[k].deployment_id = deployment_id}) = 1
              /\ \A k \in 1..Len(sessions) :
                    LET progress ==
                            session[deployment_sessions[sessions[k].deployment_id]].progress
                    IN  /\ sessions[k].completed_artifacts =
                              Cardinality({i \in 1..Len(progress) :
                                              progress[i].overallStatus = "completed"})
                        /\ sessions[k].failed_artifacts =
                              Cardinality({i \in 1..Len(progress) :
                                              progress[i].overallStatus = "failed"})
                        /\ sessions[k].completed_artifacts + sessions[k].failed_artifacts
                              <= sessions[k].total_artifacts
      ]_vars

C21_Witness ==
    /\ reply.request.endpoint = "sessions"
    /\ Len(reply.body) = 2
    /\ reply.body[1].status = "in-progress"
    /\ reply.body[1].total_artifacts = 1
    /\ reply.body[1].completed_artifacts = 1
    /\ reply.body[2].total_artifacts = 0

\* C22: when the token endpoint answers the refresh of a call with a
\* non-2xx status, the call ends with the error of the refused refresh, the
\* client's stored token and expiry are as they were, the request the call
\* wanted the headers for has not been sent, and the calling workflow's
\* record has overall status failed with that error as its error message.
C22_RefusedRefresh ==
    [][\A k \in DOMAIN tc.callers :
          ( /\ tc.callers[k].pc = "refresh"
            /\ tc'.callers[k].pc # "refresh"
            /\ tc'.callers[k].token_status \notin 200..299 ) =>
             /\ tc'.callers[k].pc = "raised"
             /\ tc'.callers[k].error = "HTTPStatusError"
             /\ tc'.oauth_token = tc.oauth_token
             /\ tc'.token_expiry = tc.token_expiry
             /\ tc'.callers[k].sent.token = None
             /\ tc'.callers[k].progress_item.overallStatus = "failed"
             /\ tc'.callers[k].progress_item.errorMessage = "HTTPStatusError"
             /\ tc'.callers[k].progress_item.endTime # None
      ]_vars

C22_Witness ==
    \E k \in DOMAIN tc.callers :
        /\ tc.callers[k].pc = "raised"
        /\ tc.callers[k].token_status = 401
        /\ tc.callers[k].sent.token = None
        /\ tc.callers[k].progress_item.overallStatus = "failed"
        /\ tc.oauth_token # None
        /\ tc.token_expiry = 30

\* The calls whose token refresh is in flight
RefreshesInFlight == {k \in DOMAIN tc.callers : tc.callers[k].pc = "refresh"}

\* C30: the refresh path has no single-flight guard: a workflow that calls
\* through the client while the token is missing or due issues a token
\* refresh of its own even when a refresh of another workflow is in flight
\* (so two refreshes of one client for one expiry can be in flight at once).
C30_NoSingleFlight ==
    [][\A k \in DOMAIN tc.callers :
          ( /\ tc.callers[k].pc = "idle"
            /\ tc'.callers[k].pc # "idle"
            /\ \/ tc.oauth_token = None
               \/ tc.token_expiry - tc.now <= 60
            /\ RefreshesInFlight # {} ) =>
             /\ tc'.callers[k].pc = "refresh"
             /\ tc'.callers[k].refreshes = 1
             /\ RefreshesInFlight' = RefreshesInFlight \cup {k}
      ]_vars

C30_Witness ==
    /\ RefreshesInFlight = {1, 2}
    /\ tc.callers[1].entry.token_expiry = tc.callers[2].entry.token_expiry
    /\ tc.callers[1].refreshes + tc.callers[2].refreshes = 2
    /\ tc.issued = 0

\* The operations that may be issued right after op has returned
Successors(op) ==
    CASE op = "fetch_iflow_artifact" -> {"package_exists"}
      [] op = "package_exists" -> {"get_package_details", "iflow_exists"}
      [] op = "get_package_details" -> {"create_package_from_source"}
      [] op = "create_package_from_source" -> {"iflow_exists"}
      [] op = "iflow_exists" -> {"update_iflow", "upload_iflow"}
      [] op \in {"update_iflow", "upload_iflow"} ->
             {"update_iflow_config_param", "deploy_iflow"}
      [] op = "update_iflow_config_param" ->
             {"update_iflow_config_param", "deploy_iflow"}
      [] op = "deploy_iflow" -> {}

\* The tenant an operation of the workflow goes to
TenantOf(op) ==
    IF op \in {"fetch_iflow_artifact", "get_package_details"}
    THEN SourceTenant ELSE TargetTenant

\* The operation the workflow was in when the exception w.raised arose
RaisedIn(w) ==
    CASE w.raised = "open" -> {"update_iflow", "upload_iflow"}
      [] w.raised = "batch_update_iflow_config" -> {"update_iflow_config_param"}
      [] OTHER -> {w.raised}

\* C23: the operations a workflow has issued start with the fetch on the
\* source and follow the order fetch, package_exists, [get_package_details,
\* create_package_from_source], iflow_exists, update_iflow or upload_iflow,
\* [update_iflow_config_param ...], deploy_iflow, each on its tenant; only
\* the last one can be outstanding or have raised, and deploy_iflow has been
\* issued only after the upload or update and with no failed parameter.
C23_OperationOrder ==
    \A r \in 1..Len(wf) : \A i \in 1..Len(wf[r]) :
        LET w == wf[r][i]
            n == Len(w.calls)
        IN  /\ n = 0 <=> w.pc \in {"start", "crashed"}
            /\ n >= 1 => w.calls[1].op = "fetch_iflow_artifact"
            /\ \A k \in 1..n : w.calls[k].tenant = TenantOf(w.calls[k].op)
            /\ \A k \in 1..(n - 1) : w.calls[k + 1].op \in Successors(w.calls[k].op)
            /\ w.pc \notin {"start", "crashed", "done"} => w.pc = w.calls[n].op
            /\ Caught(w) => /\ w.pc = "done"
                            /\ w.calls[n].op \in RaisedIn(w)
            /\ "deploy_iflow" \in Ops(w) =>
                  /\ \E k \in 1..n : w.calls[k].op \in {"update_iflow", "upload_iflow"}
                  /\ w.failures = <<>>

C23_Witness ==
    \E r \in 1..Len(wf) : \E i \in 1..Len(wf[r]) :
        /\ wf[r][i].pc = "done"
        /\ wf[r][i].raised = None
        /\ Len(wf[r][i].calls) = 9
        /\ wf[r][i].calls[3].op = "get_package_details"
        /\ wf[r][i].calls[9].op = "deploy_iflow"

\* The value of a phase status is final
Final(status) == status \in {"completed", "failed"}

\* C24: in a session that only its own executor works on, a phase status
\* (upload, configure or deploy) of a record that is completed or failed
\* is not changed by any step.
C24_PhaseStatusAbsorbing ==
    [][\A d \in 1..Len(session) : \A i \in 1..Len(session[d].progress) :
          LET before == session[d].progress[i]
              after == session'[d].progress[i]
          IN  (Exclusive(d) /\ Exclusive(d)') =>
                 /\ Final(before.uploadStatus) => after.uploadStatus = before.uploadStatus
                 /\ Final(before.configureStatus) =>
                        after.configureStatus = before.configureStatus
                 /\ Final(before.deployStatus) => after.deployStatus = before.deployStatus
      ]_vars

\* C25: every step leaves the overall status of a record as it is, or moves
\* it from pending to in-progress, or from in-progress to completed or
\* failed.
C25_OverallStatusMonotone ==
    [][\A d \in 1..Len(session) : \A i \in 1..Len(session[d].progress) :
          LET before == session[d].progress[i].overallStatus
              after == session'[d].progress[i].overallStatus
          IN  \/ after = before
              \/ before = "pending" /\ after = "in-progress"
              \/ before = "in-progress" /\ after \in {"completed", "failed"}
      ]_vars

\* The value of a phase status is an active one
Active(status) == status \notin {"pending", "completed", "failed"}

\* The snapshot <<upload, configure, deploy>> of phase statuses is consistent
ConsistentSnapshot(phases) ==
    /\ Cardinality({p \in 1..3 : Active(phases[p])}) <= 1
    /\ \A p \in 1..3 : \A q \in 1..3 :
          /\ (p < q /\ Active(phases[q])) => Final(phases[p])
          /\ (p < q /\ (Active(phases[p]) \/ phases[p] = "pending")) =>
                phases[q] = "pending"

\* C26: in every state, of the upload, configure and deploy status of a
\* record at most one is active, every phase before an active one is
\* completed or failed, and every phase after an active or pending one is
\* pending.
C26_ConsistentSnapshot ==
    \A d \in 1..Len(session) : \A i \in 1..Len(session[d].progress) :
        ConsistentSnapshot(<<session[d].progress[i].uploadStatus,
                             session[d].progress[i].configureStatus,
                             session[d].progress[i].deployStatus>>)

\* The positions of the calls of op in the call list of w
CallsOf(w, op) == {k \in 1..Len(w.calls) : w.calls[k].op = op}

\* get_package_details of w was awaited and returned its answer
DetailsReturned(w) ==
    /\ "get_package_details" \in Ops(w)
    /\ w.pc # "get_package_details"
    /\ w.raised # "get_package_details"

\* C28 as stated: a workflow that has ended invoked create_package exactly
\* if its package_exists probe returned false.
C28_Original ==
    \A r \in 1..Len(wf) : \A i \in 1..Len(wf[r]) :
        wf[r][i].pc = "done" =>
            ("create_package_from_source" \in Ops(wf[r][i])
                <=> wf[r][i].package_exists = "false")

\* C28: create_package is invoked on the destination only if the
\* package_exists probe returned false, and then exactly when
\* get_package_details on the source returned: at most once, directly after
\* that call, with the package the source described (the contents of the d
\* envelope when the answer has one). When the probe returned true neither
\* get_package_details nor create_package is called.
C28_CreateMissingPackage ==
    \A r \in 1..Len(wf) : \A i \in 1..Len(wf[r]) :
        LET w == wf[r][i]
            created == CallsOf(w, "create_package_from_source")
            details == CallsOf(w, "get_package_details")
        IN  /\ Cardinality(created) <= 1 /\ Cardinality(details) <= 1
            /\ (w.package_exists = "false") <=> (details # {})
            /\ (w.package_exists = "false" /\ DetailsReturned(w)) <=> (created # {})
            /\ w.package_exists = "true" => (created = {} /\ details = {})
            /\ \A k \in created :
                  /\ k > 1
                  /\ w.calls[k - 1] = Call("get_package_details", SourceTenant,
                                           exec[r].artifacts[i].packageId)
                  /\ w.calls[k] = Call("create_package_from_source", TargetTenant,
                                       PackageData(exec[r].artifacts[i].packageId).Id)

C28_Witness ==
    \E r \in 1..Len(wf) : \E i \in 1..Len(wf[r]) :
        /\ wf[r][i].package_exists = "false"
        /\ wf[r][i].pc = "done"
        /\ wf[r][i].raised = None
        /\ CallsOf(wf[r][i], "create_package_from_source") = {4}
        /\ wf[r][i].calls[4].arg = "p1"

\* The positions in the call list of w where the iFlow is sent to the destination
Sent(w) == CallsOf(w, "update_iflow") \cup CallsOf(w, "upload_iflow")

\* C29 as stated: a workflow that reached step 3 and has ended issued exactly
\* one of update_iflow and upload_iflow, exactly once.
C29_Original ==
    \A r \in 1..Len(wf) : \A i \in 1..Len(wf[r]) :
        (wf[r][i].pc = "done" /\ "iflow_exists" \in Ops(wf[r][i])) =>
            Cardinality(Sent(wf[r][i])) = 1

\* In every state: at most one of update_iflow and upload_iflow is issued
\* by a workflow, at most once, directly after its iflow_exists probe
\* returned: update_iflow exactly if the probe returned true, upload_iflow
\* exactly if it returned false.
UpdateOrUploadOnce ==
    \A r \in 1..Len(wf) : \A i \in 1..Len(wf[r]) :
        LET w == wf[r][i]
        IN  /\ Cardinality(Sent(w)) <= 1
            /\ (w.iflow_exists = "true") <=> (CallsOf(w, "update_iflow") # {})
            /\ (w.iflow_exists = "false") <=> (CallsOf(w, "upload_iflow") # {})
            /\ \A k \in Sent(w) :
                  /\ k > 1
                  /\ w.calls[k - 1].op = "iflow_exists"
                  /\ w.calls[k].tenant = TargetTenant
                  /\ w.calls[k].arg = exec[r].artifacts[i].iflowId

\* The step in which update_iflow or upload_iflow raises leaves the record
\* with overall status failed and ends the workflow.
SendFailureMarksFailed ==
    \A r \in 1..Len(wf) : \A i \in 1..Len(wf[r]) :
        (/\ wf[r][i].pc \in {"update_iflow", "upload_iflow"}
         /\ wf'[r][i].raised = wf[r][i].pc) =>
            /\ wf'[r][i].pc = "done"
            /\ session'[exec[r].deployment].progress[i].overallStatus = "failed"

\* C29: once the iflow_exists probe of a workflow returned, exactly one of
\* update_iflow and upload_iflow is issued, once: update_iflow if the probe
\* returned true, upload_iflow if it returned false; no workflow issues
\* either without that answer; and a failure of the call marks the record
\* overall failed.
C29_UpdateOrUpload ==
    []UpdateOrUploadOnce /\ [][SendFailureMarksFailed]_vars

C29_Witness ==
    \E r \in 1..Len(wf) : \E i \in 1..Len(wf[r]) :
        /\ wf[r][i].iflow_exists = "true"
        /\ wf[r][i].raised = "update_iflow"
        /\ Cardinality(Sent(wf[r][i])) = 1
        /\ Item(r, i).overallStatus = "failed"

\* Session d is worked on by the executor of its own submission only
Owned(d) == exec[d].deployment \in {0, d} /\ Exclusive(d)

\* Session d has its completion timestamp
Stamped(d) == session[d].estimated_completion = "set"

\* Every record of session d is completed or failed and the session is
\* aggregated
AllSettled(d) ==
    /\ \A i \in 1..Len(session[d].progress) : Terminal(session[d].progress[i])
    /\ session[d].status \in {"completed", "failed", "partial"}
    /\ Stamped(d)

\* C27 as stated: every record of every submitted batch eventually is
\* completed or failed, and the session eventually is completed, failed or
\* partial with a completion timestamp.
C27_Original ==
    \A d \in 1..MaxBatches : [](Len(session) >= d => <>(Len(session) >= d /\ AllSettled(d)))

\* The executor of session d failed before it started the workflows
ExecutorGaveUp(d) ==
    /\ exec[d].raised
    /\ session[d].status = "failed"
    /\ Stamped(d)

\* C27: with every remote call answering and ready tasks being run, a
\* session that only the executor of its own submission works on eventually
\* either has every record completed or failed and is itself completed,
\* failed or partial with a completion timestamp, or, when its executor
\* failed before starting the workflows, is failed with a completion
\* timestamp.
C27_EventuallySettled ==
    \A d \in 1..MaxBatches :
        [](Len(session) >= d =>
              <>(/\ Len(session) >= d
                 /\ \/ ~Owned(d)
                    \/ ExecutorGaveUp(d)
                    \/ exec[d].pc = "done" /\ AllSettled(d)))

C27_Witness ==
    \E d \in 1..Len(session) :
        /\ Owned(d)
        /\ exec[d].pc = "done"
        /\ ~exec[d].raised
        /\ AllSettled(d)
        /\ session[d].status = "partial"
        /\ Len(session[d].progress) = 2
        /\ session[d].progress[1].overallStatus = "failed"
        /\ session[d].progress[2].overallStatus = "completed"

\* The package ids the workflow w asked the destination to create
CreatedBy(w) ==
    {w.calls[k].arg : k \in CallsOf(w, "create_package_from_source")}

\* C31: among the workflows of one batch, create_package is issued at most
\* once for a package id: no two artifacts of the batch both ask the
\* destination to create the package they share.
C31_CreatePackageOnce ==
    \A r \in 1..Len(wf) : \A i \in 1..Len(wf[r]) : \A j \in 1..Len(wf[r]) :
        i # j => CreatedBy(wf[r][i]) \cap CreatedBy(wf[r][j]) = {}

\* update_iflow or upload_iflow of w was awaited and returned
SentOk(w) ==
    \E k \in Sent(w) : w.pc # w.calls[k].op /\ w.raised # w.calls[k].op

\* C32: in a session that only its own executor works on, the upload status
\* of a record is completed, with upload progress 100, only if the
\* update_iflow or upload_iflow call of its workflow has returned.
C32_UploadCompletedAfterUpload ==
    \A r \in 1..Len(wf) : \A i \in 1..Len(wf[r]) :
        (/\ exec[r].deployment = r
         /\ Exclusive(r)
         /\ \/ Item(r, i).uploadStatus = "completed"
            \/ Item(r, i).uploadProgress = 100) =>
            SentOk(wf[r][i])

\* The status of a session is one the aggregation or the executor's handler sets
Ended(deployment) == deployment.status \in {"completed", "failed", "partial"}

\* In every state a session has its completion timestamp exactly if it has ended
StampedIffEnded ==
    \A d \in 1..Len(session) : Stamped(d) <=> Ended(session[d])

\* No step changes the status or the completion timestamp of a session that has one
StampedIsFinal ==
    \A d \in 1..Len(session) :
        Stamped(d) =>
            /\ session'[d].status = session[d].status
            /\ session'[d].estimated_completion = session[d].estimated_completion

\* C33: in every state a session has a completion timestamp exactly if its
\* status is completed, failed or partial, and once the timestamp is set no
\* step changes the status or the timestamp.
C33_StampedIffEnded ==
    []StampedIffEnded /\ [][StampedIsFinal]_vars

\* The folder of the target environment holds no configuration file
NoConfigFile(target_environment) ==
    env_folder(target_environment) \notin DOMAIN configurations

\* The step in which the upload or update of an artifact returns while the
\* folder of the target environment holds no file ends the workflow failed,
\* with the configure status left configuring and no deploy issued; with a
\* file that has no matching row the same step issues the deploy.
MissingFileStep ==
    \A r \in 1..Len(wf) : \A i \in 1..Len(wf[r]) :
        ( /\ wf[r][i].pc \in {"update_iflow", "upload_iflow"}
          /\ wf'[r][i].pc # wf[r][i].pc
          /\ wf'[r][i].raised \notin {"update_iflow", "upload_iflow"} ) =>
            LET after == session'[exec[r].deployment].progress[i]
            IN  /\ NoConfigFile(exec[r].target_environment) =>
                      /\ wf'[r][i].pc = "done"
                      /\ wf'[r][i].raised = "open"
                      /\ wf'[r][i].calls = wf[r][i].calls
                      /\ after.overallStatus = "failed"
                      /\ after.errorMessage = "No such file or directory"
                      /\ after.configureStatus = "configuring"
                      /\ after.deployStatus =
                            session[exec[r].deployment].progress[i].deployStatus
                /\ NoRowMatches(exec[r].artifacts[i], exec[r].target_environment) =>
                      /\ wf'[r][i].raised = None
                      /\ wf'[r][i].pc = "deploy_iflow"

\* In every state a workflow that found no configuration file has ended
\* without a deploy, and in a session that only its own executor works on
\* its record is failed with the configure status still configuring.
MissingFileEnds ==
    \A r \in 1..Len(wf) : \A i \in 1..Len(wf[r]) :
        wf[r][i].raised = "open" =>
            /\ NoConfigFile(exec[r].target_environment)
            /\ wf[r][i].pc = "done"
            /\ "deploy_iflow" \notin Ops(wf[r][i])
            /\ "update_iflow_config_param" \notin Ops(wf[r][i])
            /\ Exclusive(exec[r].deployment) =>
                  /\ Item(r, i).overallStatus = "failed"
                  /\ Item(r, i).configureStatus = "configuring"
                  /\ Item(r, i).deployStatus = "pending"

\* C35: when the folder of the target environment holds no configuration
\* file, the workflow ends with overall status failed, deploy is never
\* issued for the artifact and its configure status stays configuring; when
\* the file exists and no row matches, deploy is issued.
C35_MissingConfigFile ==
    []MissingFileEnds /\ [][MissingFileStep]_vars

C35_Witness ==
    \E r \in 1..Len(wf) : \E i \in 1..Len(wf[r]) :
        /\ wf[r][i].raised = "open"
        /\ exec[r].target_environment = "DEV"
        /\ Exclusive(exec[r].deployment)
        /\ Item(r, i).overallStatus = "failed"
        /\ Item(r, i).configureStatus = "configuring"
        /\ SentOk(wf[r][i])

\* The operations a workflow issues against the source tenant
SourceOps == {"fetch_iflow_artifact", "get_package_details"}

\* C36: every call of a workflow that reads from the source is issued
\* against the sandbox tenant, and every other call of the workflow against
\* the tenant the batch's request names as target environment.
C36_CallsTargetEnvironment ==
    \A r \in 1..Len(wf) : \A i \in 1..Len(wf[r]) :
        \A k \in 1..Len(wf[r][i].calls) :
            wf[r][i].calls[k].tenant =
                IF wf[r][i].calls[k].op \in SourceOps
                THEN "CCCI_SANDBOX" ELSE exec[r].target_environment

\* C37: the step in which the executor of a batch of zero artifacts starts
\* with the credentials loaded ends the executor, starts no workflow and
\* leaves the session stored under its deployment id with status completed,
\* a completion timestamp and an empty progress list.
C37_EmptyBatchCompleted ==
    [][\A r \in 1..Len(exec) :
          ( /\ exec[r].artifacts = <<>>
            /\ exec[r].pc = "scheduled"
            /\ exec'[r].pc # "scheduled"
            /\ ~exec'[r].raised ) =>
             LET d == deployment_sessions[exec[r].deployment_id]
             IN  /\ exec'[r].pc = "done"
                 /\ wf'[r] = <<>>
                 /\ session'[d].status = "completed"
                 /\ session'[d].estimated_completion = "set"
                 /\ session'[d].progress = <<>>
      ]_vars

\* C34: after configuration rows were saved for an environment name, the
\* folder named in the answer is the folder the Configure phase reads for
\* that name as target environment, and that folder's file holds the saved
\* rows.
C34_SavedFolderIsReadFolder ==
    (reply.request.endpoint = "save-iflow-configurations"
       /\ reply.status_code = 200) =>
        LET data == reply.body[1]
            folder == env_folder(data.environment)
        IN  /\ data.file1 = folder
            /\ folder \in DOMAIN configurations
            /\ Len(configurations[folder]) = data.total_parameters

====
